---- MODULE Spec2Model ----
(***************************************************************************)
(* Queue engine of the YouTube downloader web service (app.py) over the    *)
(* shared YouTubeDownloader instance (youtube.py).                         *)
(*                                                                         *)
(* download_queue is the Python list of entry dicts.  A thread that holds  *)
(* a reference to a dict (the pending_items snapshot of process_queue, the *)
(* loop variable `item`) holds it here as the dict's position in the list; *)
(* an insert at the front, which moves every dict one place down, moves    *)
(* these references with it, so that they keep denoting the same dict.     *)
(* The list iterator of process_scheduled is a plain index and is not      *)
(* moved, as in CPython.                                                   *)
(*                                                                         *)
(* The Flask server runs threaded (app.run(threaded=True)) and takes no    *)
(* lock around the queue, so each handler is cut at its blocking calls     *)
(* (yt-dlp, sqlite, the download itself) and the pieces interleave.        *)
(***************************************************************************)
EXTENDS Integers, Sequences, FiniteSets, TLC

\* ---- bounds of the model ------------------------------------------------
MaxItems == 2
NumThreads == 2
MaxTime == 1
MaxTasks == 2
MaxBytes == 2
MaxLate == 1
MaxRows == 3
MaxUptime == 6
MaxDocItems == 2

\* ---- constants of the program --------------------------------------------
\* timeout = 30 # seconds
timeout == 30

Threads == 1..NumThreads
\* Times a client asks for: up to one tick beyond the clock's horizon.
ScheduleTimes == 0..(MaxTime + 1)
NoTime == -1
NoItem == 0

\* ---- URLs and video ids -------------------------------------------------
\* A URL as urlparse sees it: host, path and the v= query parameter.
None == "None"

WatchUrl(v) == [host |-> "www.youtube.com", path |-> "/watch", v |-> v]
ShortUrl(v) == [host |-> "youtu.be", path |-> v, v |-> None]

Urls == {WatchUrl("vid1"), ShortUrl("vid1"), WatchUrl("vid2")}

\* get_video_id: youtu.be URLs carry the id in the path, the others in v=.
get_video_id(url) ==
    IF url.host \in {"youtube.com", "www.youtube.com", "m.youtube.com", "youtu.be"}
    THEN IF url.host = "youtu.be"
         THEN (IF url.path # "" THEN url.path ELSE None)
         ELSE url.v
    ELSE None

Priorities == {"high", "normal", "low"}

\* ---- state --------------------------------------------------------------
VARIABLES
    download_queue,  \* downloader.download_queue: the list of entry dicts
    queue_file,      \* queue.json: the document last written by save_queue
    history,         \* video ids with a downloads row whose file exists
    now,             \* wall clock
    pc,              \* per thread: position inside its handler
    loc,             \* per thread: the handler's local variables
    fetches          \* per entry: number of fetches started for it

vars == <<download_queue, queue_file, history, now, pc, loc, fetches>>

\* The job registry of app.py and the hook list of the shared downloader.
VARIABLES
    download_status, \* app.download_status: task id -> status dict
    progress_hooks,  \* downloader.progress_hooks: the task whose hook it holds
    task             \* per task id: position and locals of its background task

status_vars == <<download_status, progress_hooks, task>>

\* One call of download_single_video from the fetch on, under download_task.
VARIABLES
    clock,           \* time.time(), in seconds
    files,           \* the downloads directory: file name -> size
    dsv,             \* position and locals of download_single_video
    downloads_db,    \* rows of the downloads table written by this call
    job              \* the status download_task gives the job at its end

detect_vars == <<clock, files, dsv, downloads_db, job>>

\* The downloads table of the sqlite database, over any number of calls.
VARIABLES
    downloads_table, \* the rows of the table downloads
    last_call        \* the last save_to_database: its arguments and outcome

table_vars == <<downloads_table, last_call>>

\* The queue as Python values and queue.json as JSON text.
VARIABLES
    py_queue,        \* downloader.download_queue: a list of dicts
    json_text,       \* queue.json: the tokens of the document, or no file
    fresh_from_file  \* the list is as load_queue returned it: nothing has changed it

json_vars == <<py_queue, json_text, fresh_from_file>>

\* The job registry over the minutes of the sweep.
VARIABLES
    uptime,          \* time.time(), in minutes since the start of the server
    finished_at,     \* per task id: not started, running, or the minute it ended
    next_sweep,      \* the minute at which the sweep's sleep ends
    response,        \* the last answer of GET /download-status/<task_id>
    issued           \* the task ids that POST /download has answered with

sweep_vars == <<uptime, finished_at, next_sweep, response, issued>>

\* download_single_video from its first line to the fetch.
VARIABLES
    downloads_dir,     \* the files of downloads_path: name -> older than max_age
    max_file_size_mb,  \* config['max_file_size_mb']
    head               \* position and locals of the call, and its caller's job

head_vars == <<downloads_dir, max_file_size_mb, head>>

\* The history as is_already_downloaded sees it: the table and the disk.
VARIABLES
    disk,            \* the paths at which a file exists
    last_job         \* the last job that ended completed: its video and its file

hist_vars == <<disk, last_job>>

\* downloader.download_queue as a reference to a list object.
VARIABLES
    heap,            \* the list objects: object id -> list of entry dicts
    queue_ref,       \* downloader.download_queue: the id of a list object
    saved,           \* queue.json as save_queue last wrote it
    handler,         \* per request thread: position and locals
    accepted         \* the urls enqueued with success and not yet executed

clear_vars == <<heap, queue_ref, saved, handler, accepted>>

\* The number of times the server has been stopped and started again.
VARIABLES restarts

more_vars == <<head_vars, hist_vars, clear_vars, restarts>>

\* The variables of the side models.
side_vars == <<table_vars, json_vars, sweep_vars, more_vars>>

NoLoc == [url |-> WatchUrl("vid1"), priority |-> "normal", confirmed |-> FALSE,
          list |-> <<>>, i |-> 0, cur |-> NoItem, tnow |-> 0, processed |-> FALSE,
          fetch |-> FALSE]

\* ---- the job registry ---------------------------------------------------
Tasks == 1..MaxTasks
\* downloader.progress_hooks is [] after construction, then [the hook of a task].
NoHook == 0
\* A status dict without the key 'progress' (lines 1099, 1106, 1168).
NoProgress == -1
Kinds == {"download", "queue", "playlist"}
\* The files one fetch downloads: 'bv*+ba' asks for a video and an audio
\* stream, 'b' and 'bestaudio/best' for one file.
Parts == {1, 2}

EmptyDict == [k \in {} |-> None]

NoTask == [kind |-> "download", pc |-> "new", original_hooks |-> NoHook,
           hooks |-> NoHook, parts |-> 1, part |-> 1, n |-> 1, i |-> 0,
           success |-> FALSE]

StatusInit ==
    /\ download_status = EmptyDict
    /\ progress_hooks = NoHook
    /\ task = [t \in Tasks |-> NoTask]

DetectInit ==
    /\ clock = 0
    /\ files = EmptyDict
    /\ dsv = [pc |-> "idle", start_time |-> 0, file_found |-> FALSE,
              oserror |-> FALSE, result |-> None]
    /\ downloads_db = {}
    /\ job = None

\* No save_to_database has been called yet.
NoCall == [video_id |-> None, file_path |-> None, rowcount |-> 0, raised |-> FALSE]

TableInit ==
    /\ downloads_table = {}
    /\ last_call = NoCall

\* One token of a JSON document: its kind and its characters.
Token(k, s) == [k |-> k, s |-> s]
\* queue.json does not exist.
NoFile == <<Token("nofile", <<>>)>>

JsonInit ==
    /\ py_queue = <<>>
    /\ json_text = NoFile
    /\ fresh_from_file = TRUE

\* A task id that no request has been given yet, one whose thread is started
\* and has not yet run, and one whose task runs.
NotStarted == -2
Started == -3
StillRunning == -1
NoResponse == [task_id |-> 0, body |-> [status |-> None, progress |-> NoProgress, error |-> None]]

\* The cleanup thread is started with the server and sweeps at once.
SweepInit ==
    /\ uptime = 0
    /\ finished_at = [t \in Tasks |-> NotStarted]
    /\ next_sweep = 0
    /\ response = NoResponse
    /\ issued = {}

\* No call of download_single_video is under way.
NoHead == [pc |-> "idle", caller |-> None, quality |-> "best", duration |-> 0,
           dir_at_entry |-> EmptyDict, metadata_failed |-> FALSE,
           estimated_size |-> 0, max_size |-> 0, over_limit |-> FALSE,
           fetched |-> 0, result |-> None, job |-> None]

\* default_config (youtube.py 32-41) and an empty downloads directory.
HeadInit ==
    /\ downloads_dir = EmptyDict
    /\ max_file_size_mb = 1000
    /\ head = NoHead

\* No job has ended completed yet.
NoJob == [video_id |-> None, file_path |-> None]

HistInit ==
    /\ disk = {}
    /\ last_job = NoJob

\* A request thread that serves no request.
NoHandler == [pc |-> "idle", url |-> 0, type |-> None, ref |-> 0, i |-> 0, new |-> <<>>]

\* self.download_queue = self.load_queue() with no queue.json: the first
\* list object, empty.
ClearInit ==
    /\ heap = << <<>> >>
    /\ queue_ref = 1
    /\ saved = <<>>
    /\ handler = [t \in Threads |-> NoHandler]
    /\ accepted = {}

\* ---- helpers ------------------------------------------------------------
RECURSIVE PositionsFrom(_, _, _)
\* [item for item in download_queue if item.get('status') == st], as
\* references, scanning from position k.
PositionsFrom(q, k, st) ==
    IF k > Len(q) THEN <<>>
    ELSE IF q[k].status = st
         THEN <<k>> \o PositionsFrom(q, k + 1, st)
         ELSE PositionsFrom(q, k + 1, st)

\* The references of a thread after an insert at the front of the list.
Shifted(l) ==
    [l EXCEPT !.list = [k \in DOMAIN l.list |-> l.list[k] + 1],
              !.cur = IF l.cur = NoItem THEN NoItem ELSE l.cur + 1]

\* A request is served by a fresh thread; the free threads being
\* interchangeable, the lowest-numbered one takes it.
Free(t) == pc[t] = "idle" /\ \A u \in Threads : u < t => pc[u] # "idle"

\* Entries already created plus those a handler is about to create.
Creating == Cardinality({t \in Threads : pc[t] = "add_insert"})
Room == Len(download_queue) + Creating < MaxItems

Init ==
    /\ download_queue = <<>>
    /\ queue_file = <<>>
    /\ history = {}
    /\ now = 0
    /\ pc = [t \in Threads |-> "idle"]
    /\ loc = [t \in Threads |-> NoLoc]
    /\ fetches = <<>>
    /\ StatusInit
    /\ DetectInit
    /\ TableInit
    /\ JsonInit
    /\ SweepInit
    /\ HeadInit
    /\ HistInit
    /\ ClearInit
    /\ restarts = 0

\* save_queue: json.dump(self.download_queue), the dicts by value.  Here the
\* document stands as the list it encodes; the encoding and the decoding
\* are json_dump and json_load below.
save_queue(q) == q

\* ---- POST /queue/add ----------------------------------------------------
\* "Check if already in queue" (lines 447-450).
AlreadyInQueue(url) ==
    \E k \in 1..Len(download_queue) :
        /\ download_queue[k].url = url
        /\ download_queue[k].status = "pending"

\* Lines 441-450: get_video_info, then the scan for a pending entry with the
\* same url; a failure of either answers 400 or 409 and ends the request.
\* Passing the scan leaves the handler in front of the sqlite lookup of
\* is_already_downloaded.  The body of the request may say that the caller
\* confirms an enqueue he has been warned about (the answer to
\* "ask_confirmation"); lines 428-433 read url, format_type, quality,
\* custom_name, tags and priority, and no other key.
AddToQueueCheck(t, url, priority, info_ok, confirmed) ==
    /\ Free(t)
    /\ Room
    /\ IF info_ok /\ ~AlreadyInQueue(url)
       THEN /\ pc' = [pc EXCEPT ![t] = "add_insert"]
            /\ loc' = [loc EXCEPT ![t] = [NoLoc EXCEPT !.url = url, !.priority = priority,
                                                       !.confirmed = confirmed]]
       ELSE UNCHANGED <<pc, loc>>
    /\ UNCHANGED <<download_queue, queue_file, history, now, fetches>>
    /\ UNCHANGED <<status_vars, detect_vars, side_vars>>

\* The entry keeps the fields the queue engine reads back; quality, name,
\* tags, priority and added_date are written and never read, or read as
\* format_type is.
NewPending(url) ==
    [url |-> url, format_type |-> "mp4", status |-> "pending",
     scheduled_time |-> NoTime, processed_date |-> FALSE, error |-> FALSE]

\* Variants of the insertion rule: one that forgets the front position, one
\* that also gives it to priority low.
InsertByPriority_AlwaysAppend(q, item, priority) ==
    Append(q, item)

InsertByPriority_LowAtFront(q, item, priority) ==
    IF priority \in {"high", "low"} THEN <<item>> \o q ELSE Append(q, item)

\* Insert based on priority (lines 482-486).
InsertByPriority(q, item, priority) ==
    IF priority = "high" THEN <<item>> \o q ELSE Append(q, item)

\* Lines 452-494: the history lookup, which answers with a warning and adds
\* nothing on a hit, then insert and save_queue.
AddToQueueInsert(t) ==
    /\ pc[t] = "add_insert"
    /\ LET url == loc[t].url
           priority == loc[t].priority
           video_id == get_video_id(url)
       IN IF video_id # None /\ video_id \in history
          THEN /\ loc' = [loc EXCEPT ![t] = NoLoc]
               /\ UNCHANGED <<download_queue, queue_file, fetches>>
          ELSE /\ download_queue' = InsertByPriority(download_queue, NewPending(url), priority)
               /\ fetches' = InsertByPriority(fetches, 0, priority)
               /\ queue_file' = save_queue(download_queue')
               /\ loc' = [u \in Threads |->
                            IF u = t THEN NoLoc
                            ELSE IF priority = "high" THEN Shifted(loc[u]) ELSE loc[u]]
    /\ pc' = [pc EXCEPT ![t] = "idle"]
    /\ UNCHANGED <<history, now>>
    /\ UNCHANGED <<status_vars, detect_vars, side_vars>>

\* ---- POST /schedule ----------------------------------------------------
NewScheduled(url, stime) ==
    [url |-> url, format_type |-> "mp4", status |-> "scheduled",
     scheduled_time |-> stime, processed_date |-> FALSE, error |-> FALSE]

\* Lines 1200-1233: the time must lie in the future and the metadata must be
\* obtainable (400 otherwise); the entry is appended with status scheduled
\* and the queue is saved.
schedule_download(t, url, stime, info_ok) ==
    /\ Free(t)
    /\ Room
    /\ IF stime > now /\ info_ok
       THEN /\ download_queue' = Append(download_queue, NewScheduled(url, stime))
            /\ fetches' = Append(fetches, 0)
            /\ queue_file' = save_queue(download_queue')
       ELSE UNCHANGED <<download_queue, queue_file, fetches>>
    /\ UNCHANGED <<history, now, pc, loc>>
    /\ UNCHANGED <<status_vars, detect_vars, side_vars>>

\* ---- download_single_video ----------------------------------------------
\* Lines 296-303: a history hit asks "Download anyway?" on the console and
\* returns False unless the answer is yes; otherwise the fetch is started.
StartsFetch(url, overwrite) ==
    LET video_id == get_video_id(url)
    IN ~(video_id # None /\ video_id \in history) \/ overwrite

\* The id under which save_to_database records a finished download.
ResolvedId(url) == get_video_id(url)

\* ---- POST /queue/process ------------------------------------------------
\* Lines 502-504 and 566-575: snapshot the pending entries, refuse when there
\* are none, otherwise start process_task on a thread of its own.
process_queue(t) ==
    /\ Free(t)
    /\ LET pending_items == PositionsFrom(download_queue, 1, "pending")
       IN IF pending_items = <<>>
          THEN UNCHANGED <<pc, loc>>
          ELSE /\ pc' = [pc EXCEPT ![t] = "pq_loop"]
               /\ loc' = [loc EXCEPT ![t] = [NoLoc EXCEPT !.list = pending_items, !.i = 1]]
    /\ UNCHANGED <<download_queue, queue_file, history, now, fetches>>
    /\ UNCHANGED <<status_vars, detect_vars, side_vars>>

\* Lines 520-538: the next entry of the snapshot is marked processing, the
\* queue is saved and download_single_video is entered; after the last
\* entry the task ends (lines 556-564).
process_task_next(t, overwrite) ==
    /\ pc[t] = "pq_loop"
    /\ IF loc[t].i > Len(loc[t].list)
       THEN /\ pc' = [pc EXCEPT ![t] = "idle"]
            /\ loc' = [loc EXCEPT ![t] = NoLoc]
            /\ UNCHANGED <<download_queue, queue_file, fetches>>
       ELSE LET item == loc[t].list[loc[t].i]
                fetch == StartsFetch(download_queue[item].url, overwrite)
            IN /\ download_queue' = [download_queue EXCEPT ![item].status = "processing"]
               /\ queue_file' = save_queue(download_queue')
               /\ pc' = [pc EXCEPT ![t] = "pq_download"]
               /\ loc' = [loc EXCEPT ![t].cur = item, ![t].fetch = fetch]
               /\ fetches' = IF fetch THEN [fetches EXCEPT ![item] = @ + 1] ELSE fetches
    /\ UNCHANGED <<history, now>>
    /\ UNCHANGED <<status_vars, detect_vars, side_vars>>

\* Variant of the bookkeeping in which a failed entry ends the run, as an
\* exception that leaves the loop would.
process_task_done_Abort(t, success) ==
    /\ pc[t] = "pq_download"
    /\ loc[t].fetch \/ ~success
    /\ LET item == loc[t].cur
       IN /\ download_queue' =
                [download_queue EXCEPT ![item].status = IF success THEN "completed" ELSE "failed",
                                       ![item].processed_date = TRUE]
          /\ history' = IF success
                        THEN history \cup {ResolvedId(download_queue[item].url)}
                        ELSE history
          /\ queue_file' = save_queue(download_queue')
    /\ pc' = [pc EXCEPT ![t] = IF success THEN "pq_loop" ELSE "idle"]
    /\ loc' = IF success
              THEN [loc EXCEPT ![t].i = @ + 1, ![t].cur = NoItem, ![t].fetch = FALSE]
              ELSE [loc EXCEPT ![t] = NoLoc]
    /\ UNCHANGED <<now, fetches>>
    /\ UNCHANGED <<status_vars, detect_vars, side_vars>>

\* Lines 540-548: the result of download_single_video becomes the entry's
\* status, processed_date is set and the queue is saved.  (The handler of
\* lines 550-554 is entered only when save_queue itself raises; file-system
\* faults are outside this model.)
process_task_done(t, success) ==
    /\ pc[t] = "pq_download"
    /\ loc[t].fetch \/ ~success
    /\ LET item == loc[t].cur
       IN /\ download_queue' =
                [download_queue EXCEPT ![item].status = IF success THEN "completed" ELSE "failed",
                                       ![item].processed_date = TRUE]
          /\ history' = IF success
                        THEN history \cup {ResolvedId(download_queue[item].url)}
                        ELSE history
          /\ queue_file' = save_queue(download_queue')
    /\ pc' = [pc EXCEPT ![t] = "pq_loop"]
    /\ loc' = [loc EXCEPT ![t].i = @ + 1, ![t].cur = NoItem, ![t].fetch = FALSE]
    /\ UNCHANGED <<now, fetches>>
    /\ UNCHANGED <<status_vars, detect_vars, side_vars>>

\* ---- POST /schedule/process (the scheduler tick) ------------------------
\* Variant of the due test that forgets the time.
DuePositions_IgnoreTime(i, tnow) ==
    {k \in i..Len(download_queue) : download_queue[k].status = "scheduled"}

\* The positions of the live list, from the iterator's index on, whose
\* entry is scheduled and due at the tick's own `now` (lines 1248-1250).
DuePositions(i, tnow) ==
    {k \in i..Len(download_queue) :
        /\ download_queue[k].status = "scheduled"
        /\ tnow >= download_queue[k].scheduled_time}

FirstOf(S) == CHOOSE k \in S : \A m \in S : k <= m

\* An entry dict without the key 'status', and a 'scheduled_time' that
\* dt.fromisoformat does not accept.
Missing == "<missing>"
Unparsable == -2

\* A dict on which the loop's own lines raise: item['status'] (line 1248)
\* without that key, item['scheduled_time'] without that key or
\* dt.fromisoformat of something that is no ISO date (line 1249).
Raises(e) ==
    \/ e.status = Missing
    \/ e.status = "scheduled" /\ e.scheduled_time \in {NoTime, Unparsable}

RaisingPositions(i) ==
    {k \in i..Len(download_queue) : Raises(download_queue[k])}

\* Lines 1247-1257 and 1266-1275: the loop runs on from position i to the
\* next due scheduled entry and enters download_single_video for it; at the
\* end of the list the queue is saved if anything was processed.  An entry
\* on which lines 1248-1249 raise ends the request in the handler of line
\* 1274, which answers 500 and saves nothing.  A due entry without the key
\* 'format_type' raises KeyError at line 1255, inside the try of line 1252,
\* before download_single_video is called.
ScanScheduled(t, i, tnow, processed, overwrite) ==
    LET due == DuePositions(i, tnow)
        raising == RaisingPositions(i)
    IN IF raising # {} /\ (due = {} \/ FirstOf(raising) <= FirstOf(due))
       THEN /\ pc' = [pc EXCEPT ![t] = "idle"]
            /\ loc' = [loc EXCEPT ![t] = NoLoc]
            /\ UNCHANGED <<queue_file, fetches>>
       ELSE IF due = {}
       THEN /\ pc' = [pc EXCEPT ![t] = "idle"]
            /\ loc' = [loc EXCEPT ![t] = NoLoc]
            /\ queue_file' = IF processed THEN save_queue(download_queue) ELSE queue_file
            /\ UNCHANGED fetches
       ELSE LET k == FirstOf(due)
                keyerror == download_queue[k].format_type = Missing
                fetch == ~keyerror /\ StartsFetch(download_queue[k].url, overwrite)
            IN /\ pc' = [pc EXCEPT ![t] = IF keyerror THEN "ps_except" ELSE "ps_download"]
               /\ loc' = [loc EXCEPT ![t] = [NoLoc EXCEPT !.i = k + 1, !.cur = k, !.tnow = tnow,
                                               !.processed = processed, !.fetch = fetch]]
               /\ fetches' = IF fetch THEN [fetches EXCEPT ![k] = @ + 1] ELSE fetches
               /\ UNCHANGED queue_file

\* Line 1244 and the first pass of the loop.
process_scheduled(t, overwrite) ==
    /\ Free(t)
    /\ ScanScheduled(t, 1, now, FALSE, overwrite)
    /\ UNCHANGED <<download_queue, history, now>>
    /\ UNCHANGED <<status_vars, detect_vars, side_vars>>

\* Variant of the tick's bookkeeping that puts a failed entry back to
\* pending for the worker.
process_scheduled_done_Requeue(t, success) ==
    /\ pc[t] = "ps_download"
    /\ loc[t].fetch \/ ~success
    /\ LET item == loc[t].cur
       IN /\ download_queue' =
                [download_queue EXCEPT ![item].status = IF success THEN "completed" ELSE "pending",
                                       ![item].processed_date = TRUE]
          /\ history' = IF success
                        THEN history \cup {ResolvedId(download_queue[item].url)}
                        ELSE history
    /\ pc' = [pc EXCEPT ![t] = "ps_loop"]
    /\ loc' = [loc EXCEPT ![t].processed = TRUE, ![t].cur = NoItem, ![t].fetch = FALSE]
    /\ UNCHANGED <<queue_file, now, fetches>>
    /\ UNCHANGED <<status_vars, detect_vars, side_vars>>

\* Lines 1258-1260: the result becomes the entry's status, with
\* processed_date; the queue is not saved before the loop has ended.
process_scheduled_done(t, success) ==
    /\ pc[t] = "ps_download"
    /\ loc[t].fetch \/ ~success
    /\ LET item == loc[t].cur
       IN /\ download_queue' =
                [download_queue EXCEPT ![item].status = IF success THEN "completed" ELSE "failed",
                                       ![item].processed_date = TRUE]
          /\ history' = IF success
                        THEN history \cup {ResolvedId(download_queue[item].url)}
                        ELSE history
    /\ pc' = [pc EXCEPT ![t] = "ps_loop"]
    /\ loc' = [loc EXCEPT ![t].processed = TRUE, ![t].cur = NoItem, ![t].fetch = FALSE]
    /\ UNCHANGED <<queue_file, now, fetches>>
    /\ UNCHANGED <<status_vars, detect_vars, side_vars>>

\* Lines 1261-1264: the handler of an exception raised inside the try sets
\* the status and the error text, and counts the entry as processed.
process_scheduled_except(t) ==
    /\ pc[t] = "ps_except"
    /\ download_queue' = [download_queue EXCEPT ![loc[t].cur].status = "failed",
                                                ![loc[t].cur].error = TRUE]
    /\ pc' = [pc EXCEPT ![t] = "ps_loop"]
    /\ loc' = [loc EXCEPT ![t].processed = TRUE, ![t].cur = NoItem, ![t].fetch = FALSE]
    /\ UNCHANGED <<queue_file, history, now, fetches>>
    /\ UNCHANGED <<status_vars, detect_vars, side_vars>>

\* The loop's next pass.
process_scheduled_next(t, overwrite) ==
    /\ pc[t] = "ps_loop"
    /\ ScanScheduled(t, loc[t].i, loc[t].tnow, loc[t].processed, overwrite)
    /\ UNCHANGED <<download_queue, history, now>>
    /\ UNCHANGED <<status_vars, detect_vars, side_vars>>

\* ---- the clock ----------------------------------------------------------
AdvanceClock ==
    /\ now < MaxTime
    /\ now' = now + 1
    /\ UNCHANGED <<download_queue, queue_file, history, pc, loc, fetches>>
    /\ UNCHANGED <<status_vars, detect_vars, side_vars>>

Next ==
    \/ \E t \in Threads, url \in Urls, priority \in Priorities, info_ok \in BOOLEAN,
          confirmed \in BOOLEAN :
          AddToQueueCheck(t, url, priority, info_ok, confirmed)
    \/ \E t \in Threads : AddToQueueInsert(t)
    \/ \E t \in Threads, url \in Urls, stime \in ScheduleTimes, info_ok \in BOOLEAN :
          schedule_download(t, url, stime, info_ok)
    \/ \E t \in Threads : process_queue(t)
    \/ \E t \in Threads, overwrite \in BOOLEAN : process_task_next(t, overwrite)
    \/ \E t \in Threads, success \in BOOLEAN : process_task_done(t, success)
    \/ \E t \in Threads, overwrite \in BOOLEAN : process_scheduled(t, overwrite)
    \/ \E t \in Threads, success \in BOOLEAN : process_scheduled_done(t, success)
    \/ \E t \in Threads, overwrite \in BOOLEAN : process_scheduled_next(t, overwrite)
    \/ AdvanceClock

Spec == Init /\ [][Next]_vars

\* The same, with the worker thread of a queue run going on whenever it can
\* and every call of download_single_video it makes returning.
SpecWorker ==
    /\ Init
    /\ [][Next]_vars
    /\ \A t \in Threads :
          /\ WF_vars(\E overwrite \in BOOLEAN : process_task_next(t, overwrite))
          /\ WF_vars(\E success \in BOOLEAN : process_task_done(t, success))

\* ---- the server started on an existing queue.json ------------------------
\* The entries a queue.json may hold that the scheduler looks at: scheduled
\* ones that are due or not, and dicts that are not well formed or lack a
\* key that the call of download_single_video reads.
LoadedUrls == {WatchUrl("vid1"), WatchUrl("vid2")}
LoadedEntries ==
    {NewScheduled(url, stime) :
        url \in LoadedUrls, stime \in {0, MaxTime + 1, NoTime, Unparsable}}
      \cup {[NewScheduled(url, 0) EXCEPT !.status = Missing] : url \in LoadedUrls}
      \cup {[NewScheduled(url, 0) EXCEPT !.format_type = Missing] : url \in LoadedUrls}

LoadedQueues ==
    UNION {[1..n -> LoadedEntries] : n \in 1..MaxItems}

\* self.download_queue = self.load_queue() (youtube.py 28 and 138-144): the
\* list is what the document holds, read without any validation.
load_queue(doc) ==
    /\ download_queue = <<>>
    /\ queue_file = <<>>
    /\ \A t \in Threads : pc[t] = "idle"
    /\ download_queue' = doc
    /\ queue_file' = doc
    /\ fetches' = [k \in 1..Len(doc) |-> 0]
    /\ UNCHANGED <<history, now, pc, loc>>
    /\ UNCHANGED <<status_vars, detect_vars, side_vars>>

TickNext ==
    \/ \E doc \in LoadedQueues : load_queue(doc)
    \/ \E t \in Threads, overwrite \in BOOLEAN : process_scheduled(t, overwrite)
    \/ \E t \in Threads, success \in BOOLEAN : process_scheduled_done(t, success)
    \/ \E t \in Threads : process_scheduled_except(t)
    \/ \E t \in Threads, overwrite \in BOOLEAN : process_scheduled_next(t, overwrite)

\* Scheduler ticks over a queue loaded at the start of the server.
SpecTick == Init /\ [][TickNext]_vars

\* ---- download_status: reads and writes ----------------------------------
\* download_status[task_id] = rec
Put(ds, t, rec) == [k \in DOMAIN ds \cup {t} |-> IF k = t THEN rec ELSE ds[k]]

\* Variant of the lookup that indexes the registry: an unknown id ends in
\* KeyError, which Flask answers with status 500.
get_download_status_Index(t) ==
    IF t \in DOMAIN download_status
    THEN download_status[t]
    ELSE [status |-> "error", progress |-> NoProgress, error |-> "KeyError"]

\* GET /download-status/<task_id> (lines 264-268).
get_download_status(t) ==
    IF t \in DOMAIN download_status
    THEN download_status[t]
    ELSE [status |-> "not_found", progress |-> NoProgress, error |-> "Task not found"]

Min(a, b) == IF a < b THEN a ELSE b

\* Variant of the mapping that forgets the upper clip.
BytePercent_Unclipped(downloaded, total) == ((downloaded * 80) \div total) + 10

\* int((downloaded / total) * 80) + 10, clipped by min(progress, 90).
BytePercent(downloaded, total) == Min(((downloaded * 80) \div total) + 10, 90)

\* The end of a task is reached: its locals are dropped.
Done == [NoTask EXCEPT !.pc = "done"]

\* Task ids are fresh uuids; the unused ones being interchangeable, they are
\* handed out in order.
Fresh(t) == task[t].pc = "new" /\ \A u \in Tasks : u < t => task[u].pc # "new"

\* ---- POST /download: download_task --------------------------------------
\* Lines 173-179.
download_task(t) ==
    /\ Fresh(t)
    /\ download_status' = Put(download_status, t,
                              [status |-> "starting", progress |-> 0, error |-> None])
    /\ task' = [task EXCEPT ![t] = [NoTask EXCEPT !.kind = "download", !.pc = "d183"]]
    /\ UNCHANGED <<progress_hooks, vars, detect_vars, side_vars>>

\* Line 183.
download_task_183(t) ==
    /\ task[t].pc = "d183"
    /\ download_status' = [download_status EXCEPT ![t].status = "extracting_info"]
    /\ task' = [task EXCEPT ![t].pc = "d184"]
    /\ UNCHANGED <<progress_hooks, vars, detect_vars, side_vars>>

\* Line 184.
download_task_184(t) ==
    /\ task[t].pc = "d184"
    /\ download_status' = [download_status EXCEPT ![t].progress = 5]
    /\ task' = [task EXCEPT ![t].pc = "d186"]
    /\ UNCHANGED <<progress_hooks, vars, detect_vars, side_vars>>

\* The status dict that replaces the task's own on a failure (lines 188-192,
\* 240-244, 247-251).
FailedStatus_NoError == [status |-> "failed", progress |-> 0, error |-> None]

FailedStatus == [status |-> "failed", progress |-> 0, error |-> "message"]

\* The status dict of a finished download (lines 234-238) and the update
\* that ends process_task (lines 557-564).
CompletedStatus == [status |-> "completed", progress |-> 100, error |-> None]

\* Lines 186-202: get_video_info; an error ends the task as failed,
\* otherwise the status becomes downloading.
download_task_186(t, info_ok) ==
    /\ task[t].pc = "d186"
    /\ IF info_ok
       THEN /\ download_status' = [download_status EXCEPT ![t].status = "downloading"]
            /\ task' = [task EXCEPT ![t].pc = "d203"]
       ELSE /\ download_status' = Put(download_status, t, FailedStatus)
            /\ task' = [task EXCEPT ![t] = Done]
    /\ UNCHANGED <<progress_hooks, vars, detect_vars, side_vars>>

\* Line 203.
download_task_203(t) ==
    /\ task[t].pc = "d203"
    /\ download_status' = [download_status EXCEPT ![t].progress = 10]
    /\ task' = [task EXCEPT ![t].pc = "d223"]
    /\ UNCHANGED <<progress_hooks, vars, detect_vars, side_vars>>

\* Line 223: original_hooks = downloader.progress_hooks.
download_task_223(t) ==
    /\ task[t].pc = "d223"
    /\ task' = [task EXCEPT ![t].pc = "d224", ![t].original_hooks = progress_hooks]
    /\ UNCHANGED <<download_status, progress_hooks, vars, detect_vars, side_vars>>

\* Line 224: downloader.progress_hooks = [progress_hook].
download_task_224(t) ==
    /\ task[t].pc = "d224"
    /\ progress_hooks' = t
    /\ task' = [task EXCEPT ![t].pc = "dsv"]
    /\ UNCHANGED <<download_status, vars, detect_vars, side_vars>>

\* Line 231: the hooks found at line 223 are put back.
download_task_231(t) ==
    /\ task[t].pc = "ret"
    /\ task[t].kind = "download"
    /\ progress_hooks' = task[t].original_hooks
    /\ task' = [task EXCEPT ![t].pc = "d233"]
    /\ UNCHANGED <<download_status, vars, detect_vars, side_vars>>

\* Lines 233-244: the task's status dict is replaced by the final one.
download_task_233(t) ==
    /\ task[t].pc = "d233"
    /\ download_status' = Put(download_status, t,
                              IF task[t].success THEN CompletedStatus ELSE FailedStatus)
    /\ task' = [task EXCEPT ![t] = Done]
    /\ UNCHANGED <<progress_hooks, vars, detect_vars, side_vars>>

\* ---- download_single_video, as the registry sees it ---------------------
\* Lines 295-335: the call ends with False before the fetch (history hit,
\* no metadata, size limit, no ffmpeg), or builds ydl_opts, which takes the
\* hook list the downloader holds at that moment.
download_single_video(t, proceed, parts) ==
    /\ task[t].pc = "dsv"
    /\ IF proceed
       THEN task' = [task EXCEPT ![t].pc = "fetch", ![t].hooks = progress_hooks,
                                 ![t].parts = parts, ![t].part = 1]
       ELSE task' = [task EXCEPT ![t].pc = "ret", ![t].success = FALSE]
    /\ UNCHANGED <<download_status, progress_hooks, vars, detect_vars, side_vars>>

\* A write of the hook to a status dict that the sweep has removed raises
\* KeyError inside the fetch, which download_single_video turns into False
\* (lines 447-450).
HookRaises(t) == [task EXCEPT ![t].pc = "ret", ![t].success = FALSE]

\* The fetch has finished one file: on to the next, or out of ydl.download.
PartDone(t) ==
    IF task[t].part < task[t].parts
    THEN [task EXCEPT ![t].pc = "fetch", ![t].part = @ + 1]
    ELSE [task EXCEPT ![t].pc = "fetched"]

\* progress_hook, d['status'] == 'downloading' (lines 207-217), called by
\* the fetch of task t with the hook its ydl_opts hold.  A missing or zero
\* total_bytes falls through to total_bytes_estimate; with neither, nothing
\* is written.
progress_hook_downloading(t, downloaded_bytes, total_bytes, total_bytes_estimate) ==
    /\ task[t].pc = "fetch"
    /\ task[t].hooks # NoHook
    /\ LET h == task[t].hooks
           total == IF total_bytes # 0 THEN total_bytes ELSE total_bytes_estimate
       IN IF total = 0
          THEN UNCHANGED <<download_status, task>>
          ELSE IF h \notin DOMAIN download_status
               THEN /\ task' = HookRaises(t)
                    /\ UNCHANGED download_status
               ELSE /\ download_status' =
                          [download_status EXCEPT ![h].progress = BytePercent(downloaded_bytes, total)]
                    /\ UNCHANGED task
    /\ UNCHANGED <<progress_hooks, vars, detect_vars, side_vars>>

\* progress_hook, d['status'] == 'finished', line 219.
progress_hook_finished(t) ==
    /\ task[t].pc = "fetch"
    /\ task[t].hooks # NoHook
    /\ LET h == task[t].hooks
       IN IF h \notin DOMAIN download_status
          THEN /\ task' = HookRaises(t)
               /\ UNCHANGED download_status
          ELSE /\ download_status' = [download_status EXCEPT ![h].progress = 95]
               /\ task' = [task EXCEPT ![t].pc = "h220"]
    /\ UNCHANGED <<progress_hooks, vars, detect_vars, side_vars>>

\* Line 220.
progress_hook_finished_220(t) ==
    /\ task[t].pc = "h220"
    /\ LET h == task[t].hooks
       IN IF h \notin DOMAIN download_status
          THEN /\ task' = HookRaises(t)
               /\ UNCHANGED download_status
          ELSE /\ download_status' = [download_status EXCEPT ![h].status = "processing"]
               /\ task' = PartDone(t)
    /\ UNCHANGED <<progress_hooks, vars, detect_vars, side_vars>>

\* A file is finished while ydl_opts hold the empty hook list.
fetch_part_unobserved(t) ==
    /\ task[t].pc = "fetch"
    /\ task[t].hooks = NoHook
    /\ task' = PartDone(t)
    /\ UNCHANGED <<download_status, progress_hooks, vars, detect_vars, side_vars>>

\* Lines 381-384 and 444-446: the fetch fails.
fetch_fails(t) ==
    /\ task[t].pc = "fetch"
    /\ task' = [task EXCEPT ![t].pc = "ret", ![t].success = FALSE]
    /\ UNCHANGED <<download_status, progress_hooks, vars, detect_vars, side_vars>>

\* Lines 386-442: completion detection, post-processing and the history
\* write decide the result.
download_single_video_return(t, success) ==
    /\ task[t].pc = "fetched"
    /\ task' = [task EXCEPT ![t].pc = "ret", ![t].success = success]
    /\ UNCHANGED <<download_status, progress_hooks, vars, detect_vars, side_vars>>

\* ---- POST /queue/process: the status dict of process_task ---------------
\* Lines 510-518, for a snapshot of n pending entries.
process_task_start(t, n) ==
    /\ Fresh(t)
    /\ download_status' = Put(download_status, t,
                              [status |-> "processing_queue", progress |-> 0, error |-> None])
    /\ task' = [task EXCEPT ![t] = [NoTask EXCEPT !.kind = "queue", !.pc = "q523", !.n = n]]
    /\ UNCHANGED <<progress_hooks, vars, detect_vars, side_vars>>

\* Lines 523-527: progress = int((i / len(pending_items)) * 100).
process_task_523(t) ==
    /\ task[t].pc = "q523"
    /\ download_status' =
          [download_status EXCEPT ![t].progress = (task[t].i * 100) \div task[t].n]
    /\ task' = [task EXCEPT ![t].pc = "dsv"]
    /\ UNCHANGED <<progress_hooks, vars, detect_vars, side_vars>>

\* Lines 540-548 and the loop's next pass.
process_task_540(t) ==
    /\ task[t].pc = "ret"
    /\ task[t].kind = "queue"
    /\ task' = [task EXCEPT ![t].pc = IF task[t].i + 1 < task[t].n THEN "q523" ELSE "q557",
                            ![t].i = @ + 1]
    /\ UNCHANGED <<download_status, progress_hooks, vars, detect_vars, side_vars>>

\* Lines 557-564: one update sets status completed and progress 100.
process_task_557(t) ==
    /\ task[t].pc = "q557"
    /\ download_status' = [download_status EXCEPT ![t] = CompletedStatus]
    /\ task' = [task EXCEPT ![t] = Done]
    /\ UNCHANGED <<progress_hooks, vars, detect_vars, side_vars>>

\* ---- POST /playlist: playlist_download_task -----------------------------
\* Line 1087.
playlist_download_task(t) ==
    /\ Fresh(t)
    /\ download_status' = Put(download_status, t,
                              [status |-> "extracting", progress |-> 5, error |-> None])
    /\ task' = [task EXCEPT ![t] = [NoTask EXCEPT !.kind = "playlist", !.pc = "p1096"]]
    /\ UNCHANGED <<progress_hooks, vars, detect_vars, side_vars>>

\* The status dict of a failed playlist task carries no progress.
PlaylistFailedStatus == [status |-> "failed", progress |-> NoProgress, error |-> "message"]

\* Lines 1095-1118: the playlist cannot be extracted or is empty (failed),
\* or has n videos.
playlist_download_task_1096(t, extracted, n) ==
    /\ task[t].pc = "p1096"
    /\ IF extracted
       THEN /\ download_status' = Put(download_status, t,
                                      [status |-> "downloading", progress |-> 10, error |-> None])
            /\ task' = [task EXCEPT ![t].pc = "p1128", ![t].n = n]
       ELSE /\ download_status' = Put(download_status, t, PlaylistFailedStatus)
            /\ task' = [task EXCEPT ![t] = Done]
    /\ UNCHANGED <<progress_hooks, vars, detect_vars, side_vars>>

\* After video i: the next one, or the end of the playlist.
PlaylistNext(t) ==
    [task EXCEPT ![t].pc = IF task[t].i + 1 < task[t].n THEN "p1128" ELSE "p1157",
                 ![t].i = @ + 1]

\* Lines 1128-1141: progress = int(10 + (i / total_videos) * 85); a video
\* that is in the history is skipped, the others are downloaded.
playlist_download_task_1128(t, skip) ==
    /\ task[t].pc = "p1128"
    /\ download_status' =
          [download_status EXCEPT ![t].progress = 10 + ((task[t].i * 85) \div task[t].n)]
    /\ task' = IF skip THEN PlaylistNext(t) ELSE [task EXCEPT ![t].pc = "dsv"]
    /\ UNCHANGED <<progress_hooks, vars, detect_vars, side_vars>>

\* Lines 1142-1155.
playlist_download_task_1142(t) ==
    /\ task[t].pc = "ret"
    /\ task[t].kind = "playlist"
    /\ task' = PlaylistNext(t)
    /\ UNCHANGED <<download_status, progress_hooks, vars, detect_vars, side_vars>>

\* Lines 1157-1165.
playlist_download_task_1157(t) ==
    /\ task[t].pc = "p1157"
    /\ download_status' = Put(download_status, t, CompletedStatus)
    /\ task' = [task EXCEPT ![t] = Done]
    /\ UNCHANGED <<progress_hooks, vars, detect_vars, side_vars>>

\* ---- the sweep ----------------------------------------------------------
\* cleanup_download_status (lines 1493-1510): every status dict whose status
\* is completed, failed or not_found is removed.
cleanup_download_status ==
    LET keys_to_remove == {k \in DOMAIN download_status :
                              download_status[k].status \in {"completed", "failed", "not_found"}}
    IN /\ keys_to_remove # {}
       /\ download_status' = [k \in DOMAIN download_status \ keys_to_remove |-> download_status[k]]
       /\ UNCHANGED <<progress_hooks, task, vars, detect_vars, side_vars>>

\* The steps made inside `with download_lock:` (lines 173 and 1498); no
\* other statement of app.py takes the lock.
WithDownloadLock ==
    \/ \E t \in Tasks : download_task(t)
    \/ cleanup_download_status

TotalBytes == 0..MaxBytes

StatusNext ==
    \/ \E t \in Tasks : download_task(t)
    \/ \E t \in Tasks : download_task_183(t)
    \/ \E t \in Tasks : download_task_184(t)
    \/ \E t \in Tasks, info_ok \in BOOLEAN : download_task_186(t, info_ok)
    \/ \E t \in Tasks : download_task_203(t)
    \/ \E t \in Tasks : download_task_223(t)
    \/ \E t \in Tasks : download_task_224(t)
    \/ \E t \in Tasks : download_task_231(t)
    \/ \E t \in Tasks : download_task_233(t)
    \/ \E t \in Tasks, proceed \in BOOLEAN, parts \in Parts : download_single_video(t, proceed, parts)
    \/ \E t \in Tasks, downloaded_bytes \in TotalBytes, total_bytes \in TotalBytes,
          total_bytes_estimate \in TotalBytes :
          progress_hook_downloading(t, downloaded_bytes, total_bytes, total_bytes_estimate)
    \/ \E t \in Tasks : progress_hook_finished(t)
    \/ \E t \in Tasks : progress_hook_finished_220(t)
    \/ \E t \in Tasks : fetch_part_unobserved(t)
    \/ \E t \in Tasks : fetch_fails(t)
    \/ \E t \in Tasks, success \in BOOLEAN : download_single_video_return(t, success)
    \/ \E t \in Tasks, n \in 1..MaxItems : process_task_start(t, n)
    \/ \E t \in Tasks : process_task_523(t)
    \/ \E t \in Tasks : process_task_540(t)
    \/ \E t \in Tasks : process_task_557(t)
    \/ \E t \in Tasks : playlist_download_task(t)
    \/ \E t \in Tasks, extracted \in BOOLEAN, n \in 1..MaxItems :
          playlist_download_task_1096(t, extracted, n)
    \/ \E t \in Tasks, skip \in BOOLEAN : playlist_download_task_1128(t, skip)
    \/ \E t \in Tasks : playlist_download_task_1142(t)
    \/ \E t \in Tasks : playlist_download_task_1157(t)
    \/ cleanup_download_status

\* The registry under any number of concurrent tasks up to MaxTasks.
SpecStatus == Init /\ [][StatusNext]_status_vars

\* ---- completion detection (youtube.py 386-420) --------------------------
\* File names are strings of characters, so that split('.') and startswith
\* work on them as in Python.
expected_name == <<"a", ".", "x">>
\* The other names the downloads directory may hold: an artifact of the
\* merge ("a.f.x"), a file of another title that begins with the same
\* characters ("ab.x"), a file of an unrelated title ("b.x").
OtherNames == {<<"a", ".", "f", ".", "x">>, <<"a", "b", ".", "x">>, <<"b", ".", "x">>}

\* os.path.getsize: empty or not.
Sizes == {0, 1}

RECURSIVE SplitFirst(_)
\* name.split('.')[0]
SplitFirst(name) ==
    IF name = <<>> \/ Head(name) = "." THEN <<>>
    ELSE <<Head(name)>> \o SplitFirst(Tail(name))

\* f.startswith(prefix)
StartsWith(f, prefix) ==
    /\ Len(f) >= Len(prefix)
    /\ SubSeq(f, 1, Len(prefix)) = prefix

\* Line 407: the files of the directory whose name starts with the part of
\* the expected name before its first dot, the expected name itself apart.
temp_files ==
    {f \in DOMAIN files : StartsWith(f, SplitFirst(expected_name)) /\ f # expected_name}

\* Variant of the loop test that still polls at the timeout itself.
LoopCondition_Inclusive(elapsed) == elapsed <= timeout

\* Line 402: while time.time() - start_time < timeout.
LoopCondition(elapsed) == elapsed < timeout

Polling == dsv.pc \in {"test", "check", "scan", "sleep"}

\* A file is written into the directory by the fetch's own processes (or is
\* there from an earlier run).  `early` records that it came before the
\* timeout of the detection had elapsed.
file_appears(name, size) ==
    /\ dsv.pc = "idle" \/ Polling
    /\ name \notin DOMAIN files
    /\ files' = Put(files, name,
                    [size |-> size, was |-> name,
                     early |-> dsv.pc = "idle" \/ clock - dsv.start_time < timeout])
    /\ UNCHANGED <<clock, dsv, downloads_db, job, vars, status_vars, side_vars>>

\* An empty file receives its content.
file_grows(name) ==
    /\ dsv.pc = "idle" \/ Polling
    /\ name \in DOMAIN files
    /\ files[name].size = 0
    /\ files' = [files EXCEPT ![name].size = 1]
    /\ UNCHANGED <<clock, dsv, downloads_db, job, vars, status_vars, side_vars>>

\* Lines 380-401: ydl.download returns; a result other than 0 ends the call
\* with False, 0 starts the wait for the file.
fetch_returns(ok) ==
    /\ dsv.pc = "idle"
    /\ dsv' = IF ok
              THEN [dsv EXCEPT !.pc = "test", !.start_time = clock]
              ELSE [dsv EXCEPT !.pc = "returned", !.result = "False"]
    /\ UNCHANGED <<clock, files, downloads_db, job, vars, status_vars, side_vars>>

\* Line 402.
loop_test ==
    /\ dsv.pc = "test"
    /\ dsv' = [dsv EXCEPT !.pc = IF LoopCondition(clock - dsv.start_time)
                                 THEN "check" ELSE "after"]
    /\ UNCHANGED <<clock, files, downloads_db, job, vars, status_vars, side_vars>>

\* Lines 403-405.
check_expected ==
    /\ dsv.pc = "check"
    /\ dsv' = IF expected_name \in DOMAIN files /\ files[expected_name].size > 0
              THEN [dsv EXCEPT !.pc = "after", !.file_found = TRUE]
              ELSE [dsv EXCEPT !.pc = "scan"]
    /\ UNCHANGED <<clock, files, downloads_db, job, vars, status_vars, side_vars>>

\* os.rename(src, dst): the file is then at dst, replacing what was there.
Renamed(fs, src, dst) ==
    [f \in (DOMAIN fs \ {src}) \cup {dst} |-> IF f = dst THEN fs[src] ELSE fs[f]]

\* Variant in which an OSError of the rename ends the wait.
RenameFailed_Fatal(d) == [d EXCEPT !.pc = "after", !.oserror = TRUE]

\* Lines 413-416: except OSError: pass, then the sleep.
RenameFailed(d) == [d EXCEPT !.pc = "sleep", !.oserror = TRUE]

\* Lines 407-416: with no other file of that beginning the poll ends in the
\* sleep; otherwise the first one os.listdir returned, any of them, is
\* renamed to the expected path, which may raise OSError.
scan_and_rename(rename_ok) ==
    /\ dsv.pc = "scan"
    /\ IF temp_files = {}
       THEN /\ rename_ok
            /\ dsv' = [dsv EXCEPT !.pc = "sleep"]
            /\ UNCHANGED files
       ELSE \E first \in temp_files :
               IF rename_ok
               THEN /\ files' = Renamed(files, first, expected_name)
                    /\ dsv' = [dsv EXCEPT !.pc = "after", !.file_found = TRUE]
               ELSE /\ dsv' = RenameFailed(dsv)
                    /\ UNCHANGED files
    /\ UNCHANGED <<clock, downloads_db, job, vars, status_vars, side_vars>>

\* Line 416: time.sleep(1) returns after one second or somewhat later.
sleep(late) ==
    /\ dsv.pc = "sleep"
    /\ clock' = clock + 1 + late
    /\ dsv' = [dsv EXCEPT !.pc = "test"]
    /\ UNCHANGED <<files, downloads_db, job, vars, status_vars, side_vars>>

\* Variant of the exit of the wait that goes on without a file.
after_loop_NoCheck ==
    /\ dsv.pc = "after"
    /\ dsv' = [dsv EXCEPT !.pc = "post"]
    /\ UNCHANGED <<clock, files, downloads_db, job, vars, status_vars, side_vars>>

\* Lines 418-420.
after_loop ==
    /\ dsv.pc = "after"
    /\ dsv' = IF dsv.file_found
              THEN [dsv EXCEPT !.pc = "post"]
              ELSE [dsv EXCEPT !.pc = "returned", !.result = "False"]
    /\ UNCHANGED <<clock, files, downloads_db, job, vars, status_vars, side_vars>>

\* Lines 424-431 and 447-450: organize_file and embed_metadata; an exception
\* of shutil.move ends the call with False.
post_process(moved) ==
    /\ dsv.pc = "post"
    /\ dsv' = IF moved
              THEN [dsv EXCEPT !.pc = "save"]
              ELSE [dsv EXCEPT !.pc = "returned", !.result = "False"]
    /\ UNCHANGED <<clock, files, downloads_db, job, vars, status_vars, side_vars>>

\* Lines 433-442: the history row is written and the call returns True.
save_to_database ==
    /\ dsv.pc = "save"
    /\ downloads_db' = downloads_db \cup {"video"}
    /\ dsv' = [dsv EXCEPT !.pc = "returned", !.result = "True"]
    /\ UNCHANGED <<clock, files, job, vars, status_vars, side_vars>>

\* app.py 233-244: the caller turns the result into the job's final status.
download_task_result ==
    /\ dsv.pc = "returned"
    /\ job = None
    /\ job' = IF dsv.result = "True" THEN CompletedStatus.status ELSE FailedStatus.status
    /\ UNCHANGED <<clock, files, dsv, downloads_db, vars, status_vars, side_vars>>

DetectNext ==
    \/ \E name \in {expected_name} \cup OtherNames, size \in Sizes : file_appears(name, size)
    \/ \E name \in {expected_name} \cup OtherNames : file_grows(name)
    \/ \E ok \in BOOLEAN : fetch_returns(ok)
    \/ loop_test
    \/ check_expected
    \/ \E rename_ok \in BOOLEAN : scan_and_rename(rename_ok)
    \/ \E late \in 0..MaxLate : sleep(late)
    \/ after_loop
    \/ \E moved \in BOOLEAN : post_process(moved)
    \/ save_to_database
    \/ download_task_result

\* One call of download_single_video from the end of the fetch on.
SpecDetect == Init /\ [][DetectNext]_detect_vars

\* ---- the downloads table (youtube.py 58-74, 255-279) --------------------
\* info.get('id'): the id yt-dlp reports, or None when the key is absent.
InfoIds == {"vid1", "vid2", None}
\* The path of the organized file, which depends on the format asked for.
FilePaths == {"a.mp4", "a.mp3"}

\* id INTEGER PRIMARY KEY: one more than the largest id of the table.
NextRowId(table) ==
    IF table = {} THEN 1
    ELSE (CHOOSE r \in table : \A q \in table : q.id <= r.id).id + 1

\* video_id TEXT UNIQUE: a row with the same video_id exists; NULL is equal
\* to nothing, itself included.
Conflicts(table, row) ==
    /\ row.video_id # None
    /\ \E r \in table : r.video_id = row.video_id

\* Variant of the statement: INSERT OR REPLACE, which puts the new row in
\* the place of the one it conflicts with.
InsertOrIgnore_Replace(table, row) ==
    [table |-> {r \in table : ~(row.video_id # None /\ r.video_id = row.video_id)}
                  \cup {row},
     rowcount |-> 1, raised |-> FALSE]

\* INSERT OR IGNORE INTO downloads ... (lines 260-277): a row that violates
\* the UNIQUE constraint is skipped and the statement succeeds.
InsertOrIgnore(table, row) ==
    IF Conflicts(table, row)
    THEN [table |-> table, rowcount |-> 0, raised |-> FALSE]
    ELSE [table |-> table \cup {row}, rowcount |-> 1, raised |-> FALSE]

\* save_to_database(info, file_path, ...) as a whole (lines 255-279).
save_to_database_call(video_id, file_path) ==
    /\ NextRowId(downloads_table) <= MaxRows
    /\ LET row == [id |-> NextRowId(downloads_table), video_id |-> video_id,
                   file_path |-> file_path]
           done == InsertOrIgnore(downloads_table, row)
       IN /\ downloads_table' = done.table
          /\ last_call' = [video_id |-> video_id, file_path |-> file_path,
                           rowcount |-> done.rowcount, raised |-> done.raised]
    /\ UNCHANGED <<vars, status_vars, detect_vars, json_vars, sweep_vars, more_vars>>

\* DELETE /downloads/<video_id> (app.py 797-823): the rows of that video
\* are deleted; 404 when there is none.
delete_download(video_id) ==
    /\ \E r \in downloads_table : r.video_id = video_id
    /\ downloads_table' = {r \in downloads_table : r.video_id # video_id}
    /\ UNCHANGED <<last_call, vars, status_vars, detect_vars, json_vars, sweep_vars, more_vars>>

TableNext ==
    \/ \E video_id \in InfoIds, file_path \in FilePaths :
          save_to_database_call(video_id, file_path)
    \/ \E video_id \in InfoIds \ {None} : delete_download(video_id)

\* The downloads table under any sequence of history writes and deletions.
SpecTable == Init /\ [][TableNext]_table_vars

\* ---- the registry over the minutes of the sweep --------------------------
\* time.sleep(300), in minutes.
SweepPeriod == 5

\* POST /download, lines 169-256: a fresh task id is made and the thread of
\* download_task is started.  Task ids are fresh uuids; the unused ones
\* being interchangeable, they are handed out in order.
download_video(t) ==
    /\ finished_at[t] = NotStarted
    /\ \A u \in Tasks : u < t => finished_at[u] # NotStarted
    /\ finished_at' = [finished_at EXCEPT ![t] = Started]
    /\ UNCHANGED <<download_status, uptime, next_sweep, response, issued>>
    /\ UNCHANGED <<progress_hooks, task, vars, detect_vars, table_vars, json_vars, more_vars>>

\* Lines 258-262: the request is answered with the task id, while the thread
\* it has started runs or is still to run.
download_video_returns(t) ==
    /\ finished_at[t] # NotStarted
    /\ t \notin issued
    /\ issued' = issued \cup {t}
    /\ UNCHANGED <<download_status, uptime, finished_at, next_sweep, response>>
    /\ UNCHANGED <<progress_hooks, task, vars, detect_vars, table_vars, json_vars, more_vars>>

\* Lines 173-179, at the minute uptime: the thread of download_task runs its
\* first statement and the task id gets its status dict.
job_created(t) ==
    /\ finished_at[t] = Started
    /\ download_status' = Put(download_status, t,
                              [status |-> "starting", progress |-> 0, error |-> None])
    /\ finished_at' = [finished_at EXCEPT ![t] = StillRunning]
    /\ UNCHANGED <<uptime, next_sweep, response, issued>>
    /\ UNCHANGED <<progress_hooks, task, vars, detect_vars, table_vars, json_vars, more_vars>>

\* Lines 233-244: the task replaces its status dict by the final one.
job_finished(t, success) ==
    /\ finished_at[t] = StillRunning
    /\ download_status' = Put(download_status, t,
                              IF success THEN CompletedStatus ELSE FailedStatus)
    /\ finished_at' = [finished_at EXCEPT ![t] = uptime]
    /\ UNCHANGED <<uptime, next_sweep, response, issued>>
    /\ UNCHANGED <<progress_hooks, task, vars, detect_vars, table_vars, json_vars, more_vars>>

\* A minute passes while the cleanup thread sleeps.
minute_passes ==
    /\ uptime < MaxUptime
    /\ uptime < next_sweep
    /\ uptime' = uptime + 1
    /\ UNCHANGED <<download_status, finished_at, next_sweep, response, issued>>
    /\ UNCHANGED <<progress_hooks, task, vars, detect_vars, table_vars, json_vars, more_vars>>

\* Lines 1500-1503.
keys_to_remove ==
    {key \in DOMAIN download_status :
        download_status[key].status \in {"completed", "failed", "not_found"}}

\* One pass of the loop of cleanup_download_status (lines 1496-1510): the
\* status dicts that are completed, failed or not_found are deleted, then
\* the thread sleeps for 300 seconds.
cleanup_pass ==
    /\ uptime = next_sweep
    /\ download_status' =
          [key \in DOMAIN download_status \ keys_to_remove |-> download_status[key]]
    /\ next_sweep' = uptime + SweepPeriod
    /\ UNCHANGED <<uptime, finished_at, response, issued>>
    /\ UNCHANGED <<progress_hooks, task, vars, detect_vars, table_vars, json_vars, more_vars>>

\* GET /download-status/<task_id>, answered with the body of line 267.
lookup(t) ==
    /\ response' = [task_id |-> t, body |-> get_download_status(t)]
    /\ UNCHANGED <<download_status, uptime, finished_at, next_sweep, issued>>
    /\ UNCHANGED <<progress_hooks, task, vars, detect_vars, table_vars, json_vars, more_vars>>

SweepNext ==
    \/ \E t \in Tasks : download_video(t)
    \/ \E t \in Tasks : download_video_returns(t)
    \/ \E t \in Tasks : job_created(t)
    \/ \E t \in Tasks, success \in BOOLEAN : job_finished(t, success)
    \/ minute_passes
    \/ cleanup_pass
    \/ \E t \in Tasks : lookup(t)

\* Jobs, status lookups and the sweep thread over the first minutes of the
\* server.
SpecSweep == Init /\ [][SweepNext]_<<download_status, sweep_vars>>

\* ---- queue.json: json.dump and json.load (youtube.py 138-149) -----------
\* Python values: t is the type, s the characters of a str or the repr of a
\* number, items the elements of a list or the key/value pairs of a dict in
\* insertion order.  A string is a sequence of pieces of text, the
\* characters that JSON escapes standing alone.
PyNone == [t |-> "None", s |-> <<>>, items |-> <<>>]
PyStr(cs) == [t |-> "str", s |-> cs, items |-> <<>>]
PyInt(cs) == [t |-> "int", s |-> cs, items |-> <<>>]
PyFloat(cs) == [t |-> "float", s |-> cs, items |-> <<>>]
PyList(vs) == [t |-> "list", s |-> <<>>, items |-> vs]
PyDict(kvs) == [t |-> "dict", s |-> <<>>, items |-> kvs]
Pair(key, val) == [key |-> key, val |-> val]

\* Variant of the encoder of strings that writes every character as it is.
Escape_Raw(cs) == cs

RECURSIVE Escape(_)
\* The JSON encoding of a str: a quote and a backslash get a backslash in
\* front.
Escape(cs) ==
    IF cs = <<>> THEN <<>>
    ELSE (IF Head(cs) \in {"\"", "\\"} THEN <<"\\", Head(cs)>> ELSE <<Head(cs)>>)
            \o Escape(Tail(cs))

RECURSIVE Unescape(_)
\* The decoding: a backslash stands for the character that follows it.
Unescape(cs) ==
    IF cs = <<>> THEN <<>>
    ELSE IF Head(cs) = "\\" /\ Len(cs) >= 2
         THEN <<cs[2]>> \o Unescape(Tail(Tail(cs)))
         ELSE <<Head(cs)>> \o Unescape(Tail(cs))

Punct(k) == Token(k, <<>>)

RECURSIVE dumps(_), dumps_items(_), dumps_pairs(_)
\* json.dump of one value: None is written as null, a str as a string, an
\* int or a float by its repr, a list as an array, a dict as an object.
dumps(v) ==
    CASE v.t = "None" -> <<Punct("null")>>
      [] v.t = "str" -> <<Token("string", Escape(v.s))>>
      [] v.t \in {"int", "float"} -> <<Token("number", v.s)>>
      [] v.t = "list" -> <<Punct("[")>> \o dumps_items(v.items) \o <<Punct("]")>>
      [] v.t = "dict" -> <<Punct("{")>> \o dumps_pairs(v.items) \o <<Punct("}")>>

dumps_items(vs) ==
    IF vs = <<>> THEN <<>>
    ELSE dumps(Head(vs))
           \o (IF Len(vs) = 1 THEN <<>> ELSE <<Punct(",")>> \o dumps_items(Tail(vs)))

dumps_pairs(kvs) ==
    IF kvs = <<>> THEN <<>>
    ELSE <<Token("string", Escape(Head(kvs).key)), Punct(":")>> \o dumps(Head(kvs).val)
           \o (IF Len(kvs) = 1 THEN <<>> ELSE <<Punct(",")>> \o dumps_pairs(Tail(kvs)))

\* A number with a fraction or an exponent is read as a float, any other as
\* an int.
IsFloat(cs) == \E i \in 1..Len(cs) : cs[i] \in {".", "e", "E"}

RECURSIVE loads(_), loads_items(_, _), loads_pairs(_, _)
\* json.load of the value at the head of the tokens: the value and the
\* tokens that follow it.
loads(toks) ==
    LET h == Head(toks)
        more == Tail(toks)
    IN CASE h.k = "null" -> [val |-> PyNone, rest |-> more]
         [] h.k = "string" -> [val |-> PyStr(Unescape(h.s)), rest |-> more]
         [] h.k = "number" ->
              [val |-> IF IsFloat(h.s) THEN PyFloat(h.s) ELSE PyInt(h.s), rest |-> more]
         [] h.k = "[" ->
              IF Head(more).k = "]"
              THEN [val |-> PyList(<<>>), rest |-> Tail(more)]
              ELSE loads_items(more, <<>>)
         [] h.k = "{" ->
              IF Head(more).k = "}"
              THEN [val |-> PyDict(<<>>), rest |-> Tail(more)]
              ELSE loads_pairs(more, <<>>)

loads_items(toks, acc) ==
    LET r == loads(toks)
        vs == Append(acc, r.val)
    IN IF Head(r.rest).k = ","
       THEN loads_items(Tail(r.rest), vs)
       ELSE [val |-> PyList(vs), rest |-> Tail(r.rest)]

loads_pairs(toks, acc) ==
    LET key == Unescape(Head(toks).s)
        r == loads(Tail(Tail(toks)))
        kvs == Append(acc, Pair(key, r.val))
    IN IF Head(r.rest).k = ","
       THEN loads_pairs(Tail(r.rest), kvs)
       ELSE [val |-> PyDict(kvs), rest |-> Tail(r.rest)]

\* save_queue: json.dump(self.download_queue, f) (lines 146-149).
json_dump(queue) == dumps(PyList(queue))

\* load_queue: json.load(f), or [] when the file does not exist (lines
\* 138-144).
json_load(text) == IF text = NoFile THEN <<>> ELSE loads(text).val.items

\* d[key] = val: in the place of the key, or behind the last key.
SetKey(d, key, val) ==
    IF \E i \in 1..Len(d.items) : d.items[i].key = key
    THEN PyDict([i \in 1..Len(d.items) |->
                   IF d.items[i].key = key THEN Pair(key, val) ELSE d.items[i]])
    ELSE PyDict(Append(d.items, Pair(key, val)))

GetKey(d, key) == (CHOOSE kv \in {d.items[i] : i \in 1..Len(d.items)} : kv.key = key).val

\* What get_video_info reports for the two videos: a title with a quote and
\* a duration, a title with a backslash and no duration.
Videos == {"vid1", "vid2"}
Title(video) == IF video = "vid1" THEN <<"a", "\"", "b">> ELSE <<"c", "\\", "d">>
Duration(video) == IF video = "vid1" THEN PyInt(<<"90">>) ELSE PyInt(<<"0">>)
\* round(calculate_file_size(...) / (1024*1024), 1)
EstimatedSizeMb(video) == IF video = "vid1" THEN PyFloat(<<"56", ".", "2">>) ELSE PyFloat(<<"0", ".", "0">>)
video_info(video) ==
    PyDict(<<Pair(<<"title">>, PyStr(Title(video))), Pair(<<"duration">>, Duration(video))>>)

\* What a request gives besides the url: nothing, or a name and a tag.
RequestOptions ==
    {[custom_name |-> PyNone, tags |-> PyList(<<>>)],
     [custom_name |-> PyStr(<<"name">>), tags |-> PyList(<<PyStr(<<"t">>)>>)]}

\* The dict of app.py 465-480.
queue_item(video, custom_name, tags, priority) ==
    PyDict(<<Pair(<<"url">>, PyStr(<<"https://youtu.be/", video>>)),
             Pair(<<"custom_name">>, custom_name),
             Pair(<<"tags">>, tags),
             Pair(<<"priority">>, PyStr(<<priority>>)),
             Pair(<<"status">>, PyStr(<<"pending">>)),
             Pair(<<"video_info">>, video_info(video)),
             Pair(<<"estimated_size_mb">>, EstimatedSizeMb(video))>>)

\* The dict of app.py 1212-1224.
scheduled_item(video) ==
    PyDict(<<Pair(<<"url">>, PyStr(<<"https://youtu.be/", video>>)),
             Pair(<<"scheduled_time">>, PyStr(<<"2030-01-01T00:00:00">>)),
             Pair(<<"status">>, PyStr(<<"scheduled">>)),
             Pair(<<"video_info">>, video_info(video))>>)

\* POST /queue/add, lines 465-488.
json_add_to_queue(video, custom_name, tags, priority) ==
    /\ Len(py_queue) < MaxDocItems
    /\ py_queue' = InsertByPriority(py_queue, queue_item(video, custom_name, tags, priority),
                                    priority)
    /\ json_text' = json_dump(py_queue')
    /\ fresh_from_file' = FALSE
    /\ UNCHANGED <<vars, status_vars, detect_vars, table_vars, sweep_vars, more_vars>>

\* POST /schedule, lines 1212-1227.
json_schedule_download(video) ==
    /\ Len(py_queue) < MaxDocItems
    /\ py_queue' = Append(py_queue, scheduled_item(video))
    /\ json_text' = json_dump(py_queue')
    /\ fresh_from_file' = FALSE
    /\ UNCHANGED <<vars, status_vars, detect_vars, table_vars, sweep_vars, more_vars>>

\* process_task, lines 529-530: a pending item is taken up.
json_item_processing(k) ==
    /\ k \in 1..Len(py_queue)
    /\ GetKey(py_queue[k], <<"status">>) = PyStr(<<"pending">>)
    /\ py_queue' = [py_queue EXCEPT ![k] = SetKey(@, <<"status">>, PyStr(<<"processing">>))]
    /\ json_text' = json_dump(py_queue')
    /\ fresh_from_file' = FALSE
    /\ UNCHANGED <<vars, status_vars, detect_vars, table_vars, sweep_vars, more_vars>>

\* process_task, lines 540-548: the item gets its final status and its
\* processed_date.
json_item_processed(k, status) ==
    /\ k \in 1..Len(py_queue)
    /\ GetKey(py_queue[k], <<"status">>) = PyStr(<<"processing">>)
    /\ py_queue' = [py_queue EXCEPT ![k] =
                      SetKey(SetKey(@, <<"status">>, PyStr(<<status>>)),
                             <<"processed_date">>, PyStr(<<"2030-01-01T00:00:01">>))]
    /\ json_text' = json_dump(py_queue')
    /\ fresh_from_file' = FALSE
    /\ UNCHANGED <<vars, status_vars, detect_vars, table_vars, sweep_vars, more_vars>>

\* DELETE /queue/item/<index>, lines 618-620.
json_remove_queue_item(index) ==
    /\ index \in 1..Len(py_queue)
    /\ py_queue' = [i \in 1..(Len(py_queue) - 1) |->
                      IF i < index THEN py_queue[i] ELSE py_queue[i + 1]]
    /\ json_text' = json_dump(py_queue')
    /\ fresh_from_file' = FALSE
    /\ UNCHANGED <<vars, status_vars, detect_vars, table_vars, sweep_vars, more_vars>>

\* DELETE /queue/clear?type=all, lines 585-587 and 605.
json_clear_queue ==
    /\ py_queue # <<>>
    /\ py_queue' = <<>>
    /\ json_text' = json_dump(py_queue')
    /\ fresh_from_file' = FALSE
    /\ UNCHANGED <<vars, status_vars, detect_vars, table_vars, sweep_vars, more_vars>>

\* The server is started again: self.download_queue = self.load_queue()
\* (youtube.py 28).
restart ==
    /\ py_queue' = json_load(json_text)
    /\ fresh_from_file' = TRUE
    /\ UNCHANGED <<json_text, vars, status_vars, detect_vars, table_vars, sweep_vars, more_vars>>

JsonNext ==
    \/ \E video \in Videos, options \in RequestOptions, priority \in {"high", "normal"} :
          json_add_to_queue(video, options.custom_name, options.tags, priority)
    \/ \E video \in Videos : json_schedule_download(video)
    \/ \E k \in 1..MaxDocItems : json_item_processing(k)
    \/ \E k \in 1..MaxDocItems, status \in {"completed", "failed"} :
          json_item_processed(k, status)
    \/ \E index \in 1..MaxDocItems : json_remove_queue_item(index)
    \/ json_clear_queue
    \/ restart

\* The queue as Python values, saved by every operation and loaded again at
\* a restart.
SpecJson == Init /\ [][JsonNext]_json_vars

\* ---- download_single_video up to the fetch (youtube.py 293-384) ----------
\* Files that earlier downloads have left in the downloads directory, and
\* the file this call's fetch writes.
LeftoverNames == {"old.mp4", "other.mp4"}
OutputName == "a.mp4"

\* "available_qualities" of GET /config, and a height as the legacy branch
\* of line 376 takes it.
available_qualities == {"best", "720p", "1080p", "1440p", "2160p", "worst"}
Qualities == available_qualities \cup {"1080"}

\* info['duration'] in seconds: nothing, a short clip, and the lengths around
\* the one at which quality best reaches 1000 MB (1600 s).
Durations == {0, 3, 1600, 1601}

\* bitrate_map of the first definition of calculate_file_size (lines
\* 174-178), in tenths; the second definition of the same name replaces it
\* when the class body is executed.
bitrate_map_171 ==
    ("144p" :> 1) @@ ("240p" :> 2) @@ ("360p" :> 5) @@ ("480p" :> 10) @@ ("720p" :> 20)
      @@ ("1080p" :> 40) @@ ("1440p" :> 60) @@ ("2160p" :> 120) @@ ("best" :> 50)
      @@ ("highest" :> 80)

\* bitrate_map of the definition in force (lines 222-230), in tenths.
bitrate_map ==
    ("144" :> 1) @@ ("240" :> 2) @@ ("360" :> 5) @@ ("480" :> 10) @@ ("720" :> 20)
      @@ ("1080" :> 40) @@ ("best" :> 50)

\* bitrate_map.get(quality, 2.0), in tenths.
kbps(quality) == IF quality \in DOMAIN bitrate_map THEN bitrate_map[quality] ELSE 20

\* int(x * 1024 * 1024 / 8) for x a number of tenths: 1024 * 1024 / 8 is
\* 131072, and the integer part is taken.
TruncatedBytes(tenths) ==
    ((tenths \div 10) * 131072) + (((tenths % 10) * 131072) \div 10)

\* calculate_file_size(info, quality), lines 219-232.
calculate_file_size(duration, quality) == TruncatedBytes(duration * kbps(quality))

\* A file from an earlier download lies in the directory, older than 24
\* hours or not.
leftover_file(name, old) ==
    /\ head.pc = "idle"
    /\ name \notin DOMAIN downloads_dir
    /\ downloads_dir' = Put(downloads_dir, name, old)
    /\ UNCHANGED <<max_file_size_mb, head>>
    /\ UNCHANGED <<vars, status_vars, detect_vars, table_vars, json_vars, sweep_vars,
                   hist_vars, clear_vars, restarts>>

\* POST /config with max_file_size_mb (app.py 972-1010): a positive number.
update_config(mb) ==
    /\ mb > 0
    /\ mb # max_file_size_mb
    /\ max_file_size_mb' = mb
    /\ UNCHANGED <<downloads_dir, head>>
    /\ UNCHANGED <<vars, status_vars, detect_vars, table_vars, json_vars, sweep_vars,
                   hist_vars, clear_vars, restarts>>

HeadFrame ==
    /\ UNCHANGED max_file_size_mb
    /\ UNCHANGED <<vars, status_vars, detect_vars, table_vars, json_vars, sweep_vars,
                   hist_vars, clear_vars, restarts>>

\* A job is started for a video: by download_task, which asks for the
\* metadata itself first (app.py 186), or by process_task or
\* process_scheduled, which call download_single_video at once (app.py 532,
\* 1253).
job_starts(caller, quality, duration) ==
    /\ head.pc = "idle"
    /\ head' = [NoHead EXCEPT !.pc = IF caller = "download_task" THEN "a186" ELSE "y296",
                               !.caller = caller, !.quality = quality,
                               !.duration = duration, !.dir_at_entry = downloads_dir]
    /\ UNCHANGED downloads_dir
    /\ HeadFrame

\* app.py 186-193: get_video_info; 'error' in its answer ends the job as
\* failed before download_single_video is called.
get_video_info(ok) ==
    /\ head.pc = "a186"
    /\ head' = IF ok
               THEN [head EXCEPT !.pc = "y296"]
               ELSE [head EXCEPT !.pc = "done", !.metadata_failed = TRUE, !.job = "failed"]
    /\ UNCHANGED downloads_dir
    /\ HeadFrame

\* Lines 296-303: the history lookup and the question on the console.
history_check(hit, overwrite) ==
    /\ head.pc = "y296"
    /\ head' = IF hit /\ ~overwrite
               THEN [head EXCEPT !.pc = "returned", !.result = "False"]
               ELSE [head EXCEPT !.pc = "y306"]
    /\ UNCHANGED downloads_dir
    /\ HeadFrame

\* Line 306 and lines 93-115: every file of the directory that is older
\* than 24 hours is removed.
cleanup_old_files ==
    /\ head.pc = "y306"
    /\ downloads_dir' = [f \in {g \in DOMAIN downloads_dir : ~downloads_dir[g]} |->
                            downloads_dir[f]]
    /\ head' = [head EXCEPT !.pc = "y311"]
    /\ HeadFrame

\* Lines 309-314 and 444-450: extract_info raises or returns nothing, and
\* the call ends with False; or it returns the metadata.
extract_info(ok) ==
    /\ head.pc = "y311"
    /\ head' = IF ok
               THEN [head EXCEPT !.pc = "y317"]
               ELSE [head EXCEPT !.pc = "returned", !.metadata_failed = TRUE,
                                 !.result = "False"]
    /\ UNCHANGED downloads_dir
    /\ HeadFrame

\* Lines 317-319: the estimate and the limit, both in bytes.
estimate_size ==
    /\ head.pc = "y317"
    /\ LET estimated_size == calculate_file_size(head.duration, head.quality)
           max_size == max_file_size_mb * 1024 * 1024
       IN head' = [head EXCEPT !.estimated_size = estimated_size,
                               !.max_size = max_size,
                               !.over_limit = estimated_size > max_size,
                               !.pc = IF estimated_size > max_size THEN "y321" ELSE "y345"]
    /\ UNCHANGED downloads_dir
    /\ HeadFrame

\* What input() gives on the server's console: a line, or EOFError when
\* there is no console.
ConsoleAnswers == {"y", "n", "EOFError"}

\* Lines 320-323: "Continue anyway? (y/n)"; EOFError ends in the handler of
\* line 447.
size_prompt(proceed) ==
    /\ head.pc = "y321"
    /\ head' = IF proceed = "y"
               THEN [head EXCEPT !.pc = "y345"]
               ELSE [head EXCEPT !.pc = "returned", !.result = "False"]
    /\ UNCHANGED downloads_dir
    /\ HeadFrame

\* Lines 345-381: mp3 without ffmpeg ends the call with False; otherwise
\* the fetch is started.
start_fetch(format_type, ffmpeg_available) ==
    /\ head.pc = "y345"
    /\ head' = IF format_type = "mp3" /\ ~ffmpeg_available
               THEN [head EXCEPT !.pc = "returned", !.result = "False"]
               ELSE [head EXCEPT !.pc = "y381", !.fetched = @ + 1]
    /\ UNCHANGED downloads_dir
    /\ HeadFrame

\* Lines 381-442: the fetch writes its file or fails before that, and the
\* rest of the call decides the result.
fetch_and_finish(written, success) ==
    /\ head.pc = "y381"
    /\ success => written
    /\ downloads_dir' = IF written THEN Put(downloads_dir, OutputName, FALSE)
                        ELSE downloads_dir
    /\ head' = [head EXCEPT !.pc = "returned",
                             !.result = IF success THEN "True" ELSE "False"]
    /\ HeadFrame

\* app.py 233-244, 540-545, 1258: the caller turns the result into the
\* job's status.
job_ends ==
    /\ head.pc = "returned"
    /\ head' = [head EXCEPT !.pc = "done",
                             !.job = IF head.result = "True" THEN "completed" ELSE "failed"]
    /\ UNCHANGED downloads_dir
    /\ HeadFrame

\* The next job may start.
job_forgotten ==
    /\ head.pc = "done"
    /\ head' = NoHead
    /\ UNCHANGED downloads_dir
    /\ HeadFrame

HeadNext ==
    \/ \E name \in LeftoverNames, old \in BOOLEAN : leftover_file(name, old)
    \/ \E mb \in {1, 1000} : update_config(mb)
    \/ \E caller \in {"download_task", "process_task"}, quality \in Qualities,
          duration \in Durations : job_starts(caller, quality, duration)
    \/ \E ok \in BOOLEAN : get_video_info(ok)
    \/ \E hit \in BOOLEAN, overwrite \in BOOLEAN : history_check(hit, overwrite)
    \/ cleanup_old_files
    \/ \E ok \in BOOLEAN : extract_info(ok)
    \/ estimate_size
    \/ \E proceed \in ConsoleAnswers : size_prompt(proceed)
    \/ \E format_type \in {"mp4", "mp3"}, ffmpeg_available \in BOOLEAN :
          start_fetch(format_type, ffmpeg_available)
    \/ \E written \in BOOLEAN, success \in BOOLEAN : fetch_and_finish(written, success)
    \/ job_ends
    \/ job_forgotten

\* Jobs one after the other, each from its start to the end of its fetch.
SpecHead == Init /\ [][HeadNext]_head_vars

\* ---- the history lookup (youtube.py 479-488) ------------------------------
\* The path organize_file gives the file of a video: it depends on the
\* title and on the format asked for.
organized_path(video_id, format_type) ==
    IF video_id = "vid1"
    THEN (IF format_type = "mp3" THEN "a.mp3" ELSE "a.mp4")
    ELSE (IF format_type = "mp3" THEN "b.mp3" ELSE "b.mp4")

\* is_already_downloaded(video_id): the file_path of the row of that video,
\* if there is a row and a file exists at that path; None otherwise.
is_already_downloaded(video_id) ==
    LET rows == {r \in downloads_table : r.video_id = video_id}
    IN IF rows # {} /\ (CHOOSE r \in rows : TRUE).file_path \in disk
       THEN (CHOOSE r \in rows : TRUE).file_path
       ELSE None

\* One job that ends completed (youtube.py 296-303 and 380-442): the
\* history lookup reports nothing, or the console answers yes; the fetch
\* writes the file, organize_file gives its path and save_to_database
\* writes the row.
job_completes(video_id, format_type, overwrite) ==
    /\ NextRowId(downloads_table) <= MaxRows
    /\ is_already_downloaded(video_id) = None \/ overwrite
    /\ LET file_path == organized_path(video_id, format_type)
           row == [id |-> NextRowId(downloads_table), video_id |-> video_id,
                   file_path |-> file_path]
           done == InsertOrIgnore(downloads_table, row)
       IN /\ disk' = disk \cup {file_path}
          /\ downloads_table' = done.table
          /\ last_call' = [video_id |-> video_id, file_path |-> file_path,
                           rowcount |-> done.rowcount, raised |-> done.raised]
          /\ last_job' = [video_id |-> video_id, file_path |-> file_path]
    /\ UNCHANGED <<vars, status_vars, detect_vars, json_vars, sweep_vars,
                   head_vars, clear_vars, restarts>>

\* POST /cleanup/old-files (app.py 1342-1374): a file that is old enough is
\* removed from the disk; the downloads table is not touched.
cleanup_old_files_route(file_path) ==
    /\ file_path \in disk
    /\ disk' = disk \ {file_path}
    /\ UNCHANGED <<last_job, table_vars>>
    /\ UNCHANGED <<vars, status_vars, detect_vars, json_vars, sweep_vars,
                   head_vars, clear_vars, restarts>>

HistoryNext ==
    \/ \E video_id \in Videos, format_type \in {"mp4", "mp3"}, overwrite \in BOOLEAN :
          job_completes(video_id, format_type, overwrite)
    \/ \E file_path \in {organized_path(v, f) : v \in Videos, f \in {"mp4", "mp3"}} :
          cleanup_old_files_route(file_path)
    \/ \E video_id \in Videos : delete_download(video_id)

\* Completed jobs, removals of old files and deletions of history records.
SpecHistory == Init /\ [][HistoryNext]_<<table_vars, hist_vars>>

\* ---- POST /queue/add against DELETE /queue/clear (threaded server) --------
\* The queue is an attribute that names a list object; heap holds the list
\* objects made so far and queue_ref is the one downloader.download_queue
\* names.  The dicts are shared by the lists that hold them.  A handler
\* can be preempted between two bytecodes.
MaxClears == 2
QueueUrls == 1..MaxItems
ClearTypes == {"completed", "failed"}

HasUrl(list, url) == \E k \in 1..Len(list) : list[k].url = url
EverAdded(url) == \E r \in 1..Len(heap) : HasUrl(heap[r], url)
HandlerFree(t) == handler[t].pc = "idle"

ClearFrame ==
    UNCHANGED <<vars, status_vars, detect_vars, table_vars, json_vars, sweep_vars,
                head_vars, hist_vars, restarts>>

\* Lines 482-486: downloader.download_queue is loaded and the new dict is
\* put into the list it names, in front for priority high and at the end
\* otherwise.
queue_add_insert(t, url, priority) ==
    /\ HandlerFree(t)
    /\ ~EverAdded(url)
    /\ LET new_item == [url |-> url, status |-> "pending"]
       IN heap' = [heap EXCEPT ![queue_ref] = IF priority = "high"
                                             THEN <<new_item>> \o @
                                             ELSE Append(@, new_item)]
    /\ handler' = [handler EXCEPT ![t] = [NoHandler EXCEPT !.pc = "added", !.url = url]]
    /\ UNCHANGED <<queue_ref, saved, accepted>>
    /\ ClearFrame

\* Line 488: save_queue() dumps the list the attribute names now.
queue_add_save(t) ==
    /\ handler[t].pc = "added"
    /\ saved' = save_queue(heap[queue_ref])
    /\ handler' = [handler EXCEPT ![t].pc = "saved"]
    /\ UNCHANGED <<heap, queue_ref, accepted>>
    /\ ClearFrame

\* Lines 490-494: the answer "Added to queue successfully".
queue_add_returns(t) ==
    /\ handler[t].pc = "saved"
    /\ accepted' = accepted \cup {handler[t].url}
    /\ handler' = [handler EXCEPT ![t] = NoHandler]
    /\ UNCHANGED <<heap, queue_ref, saved>>
    /\ ClearFrame

\* Lines 583-594: the comprehension starts to iterate over the list the
\* attribute names.
clear_queue(t, type) ==
    /\ HandlerFree(t)
    /\ Len(heap) <= MaxClears
    /\ handler' = [handler EXCEPT ![t] = [NoHandler EXCEPT !.pc = "iterating", !.type = type,
                                                             !.ref = queue_ref, !.i = 1]]
    /\ UNCHANGED <<heap, queue_ref, saved, accepted>>
    /\ ClearFrame

\* One turn of the comprehension: the next dict of the iterated list is
\* kept unless its status is the one cleared; past the end the new list is
\* complete.
clear_queue_iterate(t) ==
    /\ handler[t].pc = "iterating"
    /\ LET list == heap[handler[t].ref]
           i == handler[t].i
       IN IF i > Len(list)
          THEN handler' = [handler EXCEPT ![t].pc = "built"]
          ELSE handler' = [handler EXCEPT
                             ![t].i = i + 1,
                             ![t].new = IF list[i].status # handler[t].type
                                        THEN Append(@, list[i]) ELSE @]
    /\ UNCHANGED <<heap, queue_ref, saved, accepted>>
    /\ ClearFrame

\* downloader.download_queue = [...]: the attribute names the new list.
clear_queue_assign(t) ==
    /\ handler[t].pc = "built"
    /\ heap' = Append(heap, handler[t].new)
    /\ queue_ref' = Len(heap) + 1
    /\ handler' = [handler EXCEPT ![t].pc = "assigned"]
    /\ UNCHANGED <<saved, accepted>>
    /\ ClearFrame

\* Line 605: save_queue(), then the answer.
clear_queue_save(t) ==
    /\ handler[t].pc = "assigned"
    /\ saved' = save_queue(heap[queue_ref])
    /\ handler' = [handler EXCEPT ![t] = NoHandler]
    /\ UNCHANGED <<heap, queue_ref, accepted>>
    /\ ClearFrame

\* Lines 540-548: the worker of a queue run ends a pending entry of the
\* queue; the dict is changed, in every list that holds it, and the queue
\* is saved.
queue_item_processed(url, status) ==
    /\ \E k \in 1..Len(heap[queue_ref]) :
          heap[queue_ref][k].url = url /\ heap[queue_ref][k].status = "pending"
    /\ heap' = [r \in 1..Len(heap) |->
                  [k \in 1..Len(heap[r]) |->
                      IF heap[r][k].url = url
                      THEN [heap[r][k] EXCEPT !.status = status]
                      ELSE heap[r][k]]]
    /\ saved' = save_queue(heap'[queue_ref])
    /\ handler' = [t \in Threads |->
                     [handler[t] EXCEPT !.new =
                        [k \in 1..Len(handler[t].new) |->
                            IF handler[t].new[k].url = url
                            THEN [handler[t].new[k] EXCEPT !.status = status]
                            ELSE handler[t].new[k]]]]
    /\ accepted' = accepted \ {url}
    /\ UNCHANGED queue_ref
    /\ ClearFrame

ClearNext ==
    \/ \E t \in Threads, url \in QueueUrls, priority \in {"high", "normal"} :
          queue_add_insert(t, url, priority)
    \/ \E t \in Threads : queue_add_save(t)
    \/ \E t \in Threads : queue_add_returns(t)
    \/ \E t \in Threads, type \in ClearTypes : clear_queue(t, type)
    \/ \E t \in Threads : clear_queue_iterate(t)
    \/ \E t \in Threads : clear_queue_assign(t)
    \/ \E t \in Threads : clear_queue_save(t)
    \/ \E url \in QueueUrls, status \in ClearTypes : queue_item_processed(url, status)

\* Enqueues, clears and the worker on a server that runs each request on a
\* thread of its own (app.run(threaded=True)).
SpecClear == Init /\ [][ClearNext]_clear_vars

\* ---- the server stopped and started again under a queue run --------------
MaxRestarts == 1

\* The process ends, with whatever its threads were doing, and a new one
\* starts: self.download_queue = self.load_queue() (youtube.py 28 and
\* 138-144) reads queue.json as it was last saved, every status as written.
\* The downloads table and the file stay.
restart_server ==
    /\ restarts < MaxRestarts
    /\ restarts' = restarts + 1
    /\ download_queue' = queue_file
    /\ fetches' = [k \in 1..Len(queue_file) |-> IF k \in DOMAIN fetches THEN fetches[k] ELSE 0]
    /\ pc' = [t \in Threads |-> "idle"]
    /\ loc' = [t \in Threads |-> NoLoc]
    /\ UNCHANGED <<queue_file, history, now>>
    /\ UNCHANGED <<status_vars, detect_vars, table_vars, json_vars, sweep_vars,
                   head_vars, hist_vars, clear_vars>>

RestartNext ==
    \/ \E t \in Threads, url \in Urls, priority \in Priorities, info_ok \in BOOLEAN,
          confirmed \in BOOLEAN :
          AddToQueueCheck(t, url, priority, info_ok, confirmed)
    \/ \E t \in Threads : AddToQueueInsert(t)
    \/ \E t \in Threads : process_queue(t)
    \/ \E t \in Threads, overwrite \in BOOLEAN : process_task_next(t, overwrite)
    \/ \E t \in Threads, success \in BOOLEAN : process_task_done(t, success)
    \/ restart_server

\* Enqueues and queue runs on a server that may be stopped and started
\* again: POST /queue/process is sent again and again, every handler and
\* every worker thread goes on while its process lives, and every call of
\* download_single_video returns.
SpecRestart ==
    /\ Init
    /\ [][RestartNext]_<<vars, restarts>>
    /\ WF_<<vars, restarts>>(\E t \in Threads : process_queue(t))
    /\ \A t \in Threads :
          /\ WF_<<vars, restarts>>(AddToQueueInsert(t))
          /\ WF_<<vars, restarts>>(\E overwrite \in BOOLEAN : process_task_next(t, overwrite))
          /\ WF_<<vars, restarts>>(\E success \in BOOLEAN : process_task_done(t, success))

\* ---- properties ---------------------------------------------------------
Active(k) == download_queue[k].status \in {"pending", "processing"}
Positions == 1..Len(download_queue)

\* C1: no two queue entries whose status is pending or processing share the
\* same video id.
C1_NoDuplicateActiveKey ==
    \A j, k \in Positions :
        (j < k /\ Active(j) /\ Active(k))
            => get_video_id(download_queue[j].url) # get_video_id(download_queue[k].url)

\* The step in which thread t inserts its entry (lines 482-488).
Inserts(t) ==
    /\ pc[t] = "add_insert"
    /\ pc'[t] = "idle"
    /\ Len(download_queue') = Len(download_queue) + 1

\* C2: the dedup check and the insert of an enqueue are atomic: at the moment
\* a request inserts its entry, the check it made still holds, so of two
\* concurrent requests for the same url at most one adds an entry.
C2_CheckAndInsertAtomic ==
    [][\A t \in Threads : Inserts(t) => ~AlreadyInQueue(loc[t].url)]_vars

\* A pending entry with the video id of url is in the queue.
KeyIsPending(url) ==
    \E k \in Positions :
        /\ download_queue[k].status = "pending"
        /\ get_video_id(download_queue[k].url) = get_video_id(url)

\* C3: an enqueue of an item whose video id already belongs to a pending
\* entry is rejected (never gets past the dedup check) and leaves the queue
\* unchanged.
C3_PendingKeyRejected ==
    [][\A t \in Threads :
          (pc[t] = "idle" /\ pc'[t] = "add_insert") => ~KeyIsPending(loc'[t].url)]_vars

Fetching(t) == pc[t] \in {"pq_download", "ps_download"} /\ loc[t].fetch

\* C4: at no time are two executions running the same queue entry.
C4_NoConcurrentExecution ==
    \A t, u \in Threads : (t # u /\ Fetching(t) /\ Fetching(u)) => loc[t].cur # loc[u].cur

\* C5: each queue entry has its fetch invoked at most once.
C5_FetchedAtMostOnce ==
    \A k \in Positions : fetches[k] <= 1

\* The position after a step of the entry that was at position k before it.
FrontInsert ==
    /\ Len(download_queue') = Len(download_queue) + 1
    /\ \E t \in Threads : Inserts(t) /\ loc[t].priority = "high"
After(k) == IF FrontInsert THEN k + 1 ELSE k

StatusEdges ==
    {<<"scheduled", "pending">>, <<"pending", "processing">>,
     <<"processing", "completed">>, <<"processing", "failed">>}

\* C6: an entry's status changes only along scheduled->pending,
\* pending->processing, processing->completed and processing->failed, so a
\* completed or failed entry never changes status again.
C6_StatusEdgesOnly ==
    [][\A k \in Positions :
          \/ download_queue'[After(k)].status = download_queue[k].status
          \/ <<download_queue[k].status, download_queue'[After(k)].status>> \in StatusEdges]_vars

\* A step of the scheduler tick run by thread t: it enters a download, or
\* returns from one, or goes on from the loop to the end of the list.
TickStep(t) ==
    /\ pc'[t] # pc[t]
    /\ pc[t] \in {"ps_loop", "ps_download"} \/ pc'[t] = "ps_download"

TickPassHandlesDue ==
    \A t \in Threads :
        LET from == IF pc[t] = "ps_loop" THEN loc[t].i ELSE 1
            tnow == IF pc[t] = "ps_loop" THEN loc[t].tnow ELSE now
            IsDue(k) == /\ download_queue[k].status = "scheduled"
                        /\ download_queue[k].scheduled_time <= tnow
        IN /\ (TickStep(t) /\ pc'[t] = "ps_download") =>
                 /\ loc'[t].cur >= from
                 /\ IsDue(loc'[t].cur)
                 /\ \A k \in from..(loc'[t].cur - 1) : ~IsDue(k)
           /\ (TickStep(t) /\ pc[t] = "ps_loop" /\ pc'[t] = "idle") =>
                 \A k \in from..Len(download_queue) : ~IsDue(k)

\* An entry leaves status scheduled only when it is due, and then to one of
\* the given statuses.
LeavesScheduledOnlyTo(statuses) ==
    \A k \in Positions :
        (download_queue[k].status = "scheduled" /\ download_queue'[After(k)].status # "scheduled")
            => /\ download_queue[k].scheduled_time <= now
               /\ download_queue'[After(k)].status \in statuses

C9_HighPriorityAtFront ==
    [][\A t \in Threads : (Inserts(t) /\ loc[t].priority = "high") =>
          /\ download_queue'[1] = NewPending(loc[t].url)
          /\ SubSeq(download_queue', 2, Len(download_queue')) = download_queue]_vars

\* A worker's snapshot holds every entry that was pending when it was taken.
\* Here the pending head is not in a snapshot that holds the pending entry
\* behind it: the head was enqueued after the snapshot, in front of an entry
\* that was pending at that moment.
C9_Witness ==
    /\ Len(download_queue) >= 2
    /\ download_queue[1].status = "pending"
    /\ download_queue[2].status = "pending"
    /\ \E t \in Threads :
          /\ pc[t] = "pq_loop"
          /\ loc[t].i = 1
          /\ \E n \in DOMAIN loc[t].list : loc[t].list[n] = 2
          /\ \A n \in DOMAIN loc[t].list : loc[t].list[n] # 1

Running(t) == task[t].pc \notin {"new", "done"}

\* C11: within one task execution the progress seen by successive status
\* reads never decreases, on every path, failure and fetches of several
\* files included.
C11_ProgressNeverDecreases ==
    [][\A t \in Tasks :
          LET before == get_download_status(t)
              after == get_download_status(t)'
          IN (Running(t) /\ before.progress # NoProgress /\ after.progress # NoProgress)
                => after.progress >= before.progress]_status_vars

\* C12: a status dict whose progress is 100 has status completed.
C12_FullProgressOnlyCompleted ==
    \A t \in DOMAIN download_status :
        download_status[t].progress = 100 => download_status[t].status = "completed"

\* C13: a status dict whose status is failed carries an error string.
C13_FailedCarriesError ==
    \A t \in DOMAIN download_status :
        download_status[t].status = "failed" => download_status[t].error # None

\* A failed download task whose progress has since been written by its hook,
\* called from another task's fetch: the error is still there.
C13_Witness ==
    \E t \in DOMAIN download_status :
        /\ download_status[t].status = "failed"
        /\ download_status[t].error # None
        /\ download_status[t].progress \in 10..95

\* The phases of a download task, in their order.
PhaseRank(status) ==
    CASE status = "starting" -> 0
      [] status = "extracting_info" -> 1
      [] status = "downloading" -> 2
      [] status = "processing" -> 3
      [] status = "completed" -> 4
      [] status = "failed" -> 4

DownloadPhases ==
    {"starting", "extracting_info", "downloading", "processing", "completed", "failed"}

\* C14: the phase of a task moves only forward along starting,
\* extracting_info, downloading, processing, completed, or from a phase that
\* is not terminal to failed; completed and failed are never left.  (A dict
\* the sweep removes is not a transition.)
C14_PhaseMovesForward ==
    [][\A t \in DOMAIN download_status :
          (t \in DOMAIN download_status' /\ download_status[t].status \in DownloadPhases
             /\ download_status'[t].status # download_status[t].status)
          => /\ download_status[t].status \notin {"completed", "failed"}
             /\ download_status'[t].status \in DownloadPhases
             /\ \/ download_status'[t].status = "failed"
                \/ PhaseRank(download_status'[t].status) > PhaseRank(download_status[t].status)]_status_vars

\* Thread t's fetch reports bytes to hook h, which writes a progress.
ByteReport(t, h) ==
    /\ task[t].pc = "fetch"
    /\ task[t].hooks = h
    /\ h \in DOMAIN download_status
    /\ \E downloaded_bytes \in TotalBytes, total_bytes \in TotalBytes,
          total_bytes_estimate \in TotalBytes :
          /\ total_bytes # 0 \/ total_bytes_estimate # 0
          /\ progress_hook_downloading(t, downloaded_bytes, total_bytes, total_bytes_estimate)

\* C15: every progress the hook writes for a report of downloaded and total
\* bytes (known or estimated) lies between 10 and 90, in particular while
\* the status is downloading, and the report leaves the status as it is.
C15_ByteProgressInBand ==
    [][\A t, h \in Tasks : ByteReport(t, h) =>
          /\ download_status'[h].progress \in 10..90
          /\ download_status'[h].status = download_status[h].status]_status_vars

\* A task in status downloading at the upper end of the band.
C15_Witness ==
    \E t \in DOMAIN download_status :
        /\ download_status[t].status = "downloading"
        /\ download_status[t].progress = 90
        /\ task[t].pc = "fetch"
        /\ task[t].hooks = t

\* ---- properties of completion detection ---------------------------------
Elapsed == clock - dsv.start_time

\* The wait has ended without a file.
GaveUp == dsv.pc = "after" /\ ~dsv.file_found

\* C16: when the expected path never appears and there is nothing to rename,
\* the wait goes on polling as long as the timeout has not elapsed and gives
\* up at the first loop test at which it has: on no earlier poll, and with
\* no further poll after it (so less than one sleep after the timeout).
C16_FailsExactlyAtTimeout ==
    [][/\ (dsv.pc = "test" /\ Elapsed < timeout) => dsv'.pc \in {"test", "check"}
       /\ (dsv.pc = "test" /\ Elapsed >= timeout) => dsv'.pc \in {"test", "after"}
       /\ (~GaveUp /\ GaveUp') =>
             /\ dsv.pc = "test"
             /\ Elapsed >= timeout
             /\ Elapsed < timeout + 1 + MaxLate]_detect_vars

\* The timeout has elapsed on a directory that never held the expected file
\* or one to rename, and the call has returned False.
C16_Witness ==
    /\ dsv.pc = "returned"
    /\ dsv.result = "False"
    /\ ~dsv.file_found
    /\ Elapsed >= timeout
    /\ expected_name \notin DOMAIN files
    /\ temp_files = {}

\* The files of the directory that share the stem of the expected name.
Alternates ==
    {f \in DOMAIN files : f # expected_name /\ SplitFirst(f) = SplitFirst(expected_name)}

\* C17: with the expected path absent, an alternate file of the same stem
\* that appears during the polling, before the timeout, is renamed to the
\* expected path and detection succeeds within one poll of its appearance;
\* so the wait never gives up over such a file whose rename never failed.
C17_AlternateFoundInTime ==
    GaveUp =>
        ~ \E f \in Alternates :
              /\ files[f].early
              /\ ~dsv.oserror
              /\ expected_name \notin DOMAIN files

\* The poll in which the rename raised OSError.
RenameRaises ==
    /\ dsv.pc = "scan"
    /\ temp_files # {}
    /\ dsv' # dsv
    /\ files' = files

\* C18: a rename that fails is not fatal: that poll neither finds the file
\* nor ends the wait, it goes to the sleep; and after the sleep, as long as
\* the timeout has not elapsed, the check and the rename are made again.
C18_RenameFailureRetried ==
    [][/\ RenameRaises =>
             /\ dsv'.pc = "sleep"
             /\ ~dsv'.file_found
             /\ dsv'.result = None
       /\ (dsv.pc = "sleep" /\ dsv' # dsv) => dsv'.pc = "test"
       /\ (dsv.pc = "test" /\ dsv' # dsv /\ Elapsed < timeout) => dsv'.pc = "check"
       /\ (dsv.pc = "check" /\ dsv' # dsv /\ ~dsv'.file_found) => dsv'.pc = "scan"
       /\ (dsv.pc = "scan" /\ temp_files # {}) =>
             \/ dsv' = dsv
             \/ RenameRaises
             \/ dsv'.file_found /\ expected_name \in DOMAIN files']_detect_vars

\* A rename failed on one poll and a later poll renamed the file.
C18_Witness ==
    /\ dsv.oserror
    /\ dsv.file_found
    /\ expected_name \in DOMAIN files
    /\ files[expected_name].was # expected_name
    /\ clock > dsv.start_time

\* C19: when detection reports success, the expected path exists, is not
\* empty and holds this job's output: the file written under the expected
\* name or under a name of the same stem.
C19_SuccessMeansOutputOnDisk ==
    dsv.file_found =>
        /\ expected_name \in DOMAIN files
        /\ files[expected_name].size > 0
        /\ SplitFirst(files[expected_name].was) = SplitFirst(expected_name)

\* C20: when detection fails after a successful fetch the call returns
\* False, the job ends failed and no history row is written; a history row
\* is only ever written after detection has succeeded.
C20_NoHistoryWithoutDetection ==
    /\ downloads_db # {} => dsv.file_found
    /\ (dsv.pc = "returned" /\ ~dsv.file_found) => (dsv.result = "False" /\ downloads_db = {})
    /\ (job # None /\ ~dsv.file_found) => job = "failed"
    /\ job = "completed" => downloads_db # {}

\* The fetch reported success, the wait ran into the timeout, and the job
\* has ended failed without a history row.
C20_Witness ==
    /\ job = "failed"
    /\ ~dsv.file_found
    /\ Elapsed >= timeout
    /\ downloads_db = {}
\* A step that is one call of save_to_database.
SaveStep ==
    \E video_id \in InfoIds, file_path \in FilePaths :
        save_to_database_call(video_id, file_path)

\* C21: a history write for a video id that already has a record leaves
\* that record as it was and ends without error, and the table never holds
\* two records with the same video id.
C21_HistoryInsertIdempotent ==
    [][/\ SaveStep =>
             /\ ~last_call'.raised
             /\ \A r \in downloads_table : r \in downloads_table'
       /\ \A r, q \in downloads_table' :
             (r.video_id # None /\ r.video_id = q.video_id) => r = q]_table_vars

\* The second write for a video id, with another path, was ignored.
C21_Witness ==
    /\ last_call.video_id # None
    /\ last_call.rowcount = 0
    /\ ~last_call.raised
    /\ \E r \in downloads_table :
          r.video_id = last_call.video_id /\ r.file_path # last_call.file_path

\* A step in which thread t enters download_single_video for an entry whose
\* video id is in the history, the console not answering yes.
EntersWithHistoryHit(t) ==
    /\ pc[t] \notin {"pq_download", "ps_download"}
    /\ pc'[t] \in {"pq_download", "ps_download"}
    /\ ~loc'[t].fetch

\* The step in which that call has returned and the entry gets its status.
LeavesAfterHistoryHit(t) ==
    /\ pc[t] \in {"pq_download", "ps_download"}
    /\ pc'[t] # pc[t]
    /\ ~loc[t].fetch

\* C22: when a queue entry is executed whose video id the history reports as
\* downloaded, and no overwrite is asked for, no fetch is invoked and the
\* entry ends in status completed.
C22_HistoryHitEndsCompleted ==
    [][\A t \in Threads :
          /\ EntersWithHistoryHit(t) => fetches' = fetches
          /\ LeavesAfterHistoryHit(t) =>
                download_queue'[loc[t].cur].status = "completed"]_vars

\* A step in which the handler run by thread t returns, having changed the
\* queue: an enqueue that inserts, a worker run, a tick that has set the
\* status of an entry.
ReturnsAfterChange(t) ==
    /\ pc[t] # "idle"
    /\ pc'[t] = "idle"
    /\ pc[t] = "add_insert" => download_queue' # download_queue
    /\ pc[t] = "ps_loop" => loc[t].processed

\* C23: whenever an operation that changes the queue returns, on its error
\* paths too, queue.json holds the queue as it is in memory: the same
\* entries in the same order with the same statuses.
C23_SavedWhenReturning ==
    [][\A t \in Threads : ReturnsAfterChange(t) => queue_file' = download_queue']_vars

\* C24: saving the queue and loading it again yields the same list: the
\* same entries in the same order, every field with the value it had; this
\* for every queue the queue operations produce, the empty one included.
C24_QueueRoundTrip ==
    /\ json_load(json_dump(py_queue)) = py_queue
    /\ json_load(json_text) = py_queue

\* Loaded from queue.json, the queue holds two entries, one of them processed, one
\* with a custom name of None.
C24_Witness ==
    /\ fresh_from_file
    /\ Len(py_queue) = 2
    /\ \E k \in 1..2 : GetKey(py_queue[k], <<"status">>) = PyStr(<<"completed">>)
    /\ \E k \in 1..2 :
          /\ GetKey(py_queue[k], <<"status">>) # PyStr(<<"scheduled">>)
          /\ GetKey(py_queue[k], <<"custom_name">>) = PyNone

\* The body of line 267 for an id the registry does not hold.
NotFound == [status |-> "not_found", progress |-> NoProgress, error |-> "Task not found"]

\* C25: a status lookup for a task id that is unknown or has been swept is
\* answered with the not-found body as a normal result, and no lookup
\* changes the registry.
C25_LookupUnknownIsNotFound ==
    [][response' # response =>
          /\ download_status' = download_status
          /\ response'.task_id \notin DOMAIN download_status
                => response'.body = NotFound]_<<download_status, sweep_vars>>

\* A lookup for a task that has finished and has been swept.
C25_Witness ==
    /\ response.task_id \in Tasks
    /\ finished_at[response.task_id] >= 0
    /\ response.task_id \notin DOMAIN download_status
    /\ response.body = NotFound

\* The retention window: five minutes, the period of the sweep.
RetentionWindow == SweepPeriod

\* C26: the sweep removes a status dict only if its status is completed,
\* failed or not_found and it has been so for longer than the retention
\* window; dicts of running tasks and of tasks that ended more recently
\* survive every sweep.
C26_SweepOnlyOldTerminal ==
    [][\A key \in DOMAIN download_status \ DOMAIN download_status' :
          /\ download_status[key].status \in {"completed", "failed", "not_found"}
          /\ finished_at[key] >= 0
          /\ uptime - finished_at[key] > RetentionWindow]_<<download_status, sweep_vars>>

\* The hook called by the fetch of task t is between its two writes to the
\* status dict of task h (lines 219 and 220).
HookInFlight(t, h) == task[t].pc = "h220" /\ task[t].hooks = h

\* C27: every change of the registry (creation, progress update, phase
\* transition, deletion by the sweep) is made while holding download_lock,
\* so the sweep never removes a status dict between two writes that a worker
\* or a progress callback makes to it.
C27_MutationsUnderLock ==
    [][/\ download_status' # download_status => WithDownloadLock
       /\ \A t, h \in Tasks :
             (HookInFlight(t, h) /\ h \in DOMAIN download_status)
                => h \in DOMAIN download_status']_status_vars

\* The j-th entry of the snapshot of the run of thread t is still to be
\* executed, and has been executed and given its final status.
Picked(t, j) ==
    /\ pc[t] \in {"pq_loop", "pq_download"}
    /\ j \in DOMAIN loc[t].list
    /\ loc[t].i <= j
Finished(t, j) ==
    /\ j \in DOMAIN loc[t].list
    /\ loc[t].i = j + 1
    /\ download_queue[loc[t].list[j]].status \in {"completed", "failed"}

\* The step in which the run of thread t marks its current entry failed.
MarksFailed(t) ==
    /\ pc[t] = "pq_download"
    /\ pc'[t] # "pq_download"
    /\ download_queue'[loc[t].cur].status = "failed"

DueAt(e, tnow) ==
    /\ e.status = "scheduled"
    /\ ~Raises(e)
    /\ tnow >= e.scheduled_time

\* C29: one malformed entry (no status, no or an unparsable scheduled time)
\* does not keep a scheduler tick from handling the other due scheduled
\* entries, before or after it in the queue, and from saving their new
\* status: when the tick returns, none of them is still scheduled and
\* queue.json holds the status each of them has in memory.
C29_MalformedEntryIsolated ==
    [][\A t \in Threads :
          (pc[t] = "ps_loop" /\ pc'[t] = "idle") =>
              \A k \in 1..Len(download_queue') :
                  /\ ~DueAt(download_queue'[k], loc[t].tnow)
                  /\ queue_file'[k].status = download_queue'[k].status]_vars

\* C30: once the fetch and the detection of the file have succeeded, a
\* failure of the post-processing (the move into the uploader's directory,
\* the embedding of metadata) does not fail the job: it ends completed.
C30_PostProcessingNotFatal ==
    (dsv.file_found /\ job # None) => job = CompletedStatus.status

\* C31: if the resolution of the metadata fails for a job, the job ends
\* failed and has created, renamed, moved or deleted no file of the
\* downloads directory: the directory is as the job found it.
C31_MetadataFailureNoFileEffects ==
    head.metadata_failed =>
        /\ head.job \in {None, "failed"}
        /\ downloads_dir = head.dir_at_entry

\* C32: if the size estimate of a job exceeds the limit max_file_size_mb,
\* the job is refused: no fetch is invoked on any path and the job ends
\* failed.
C32_OverLimitRefused ==
    head.over_limit =>
        /\ head.fetched = 0
        /\ head.job \in {None, "failed"}

\* The estimate has been made for the call under way.
Estimated == head.pc \in {"y321", "y345", "y381", "returned", "done"} /\ head.max_size > 0

\* The quality tiers the interface offers that name a rate of their own.
OfferedTiers == available_qualities \ {"worst"}

\* C33: the size estimate is duration x rate(quality) x 1024 x 1024 / 8
\* truncated to an integer, where each quality tier the interface offers
\* (720p, 1080p, 1440p, 2160p, best) is estimated with the rate the lookup
\* table gives to that tier, and the fallback rate is used only for a
\* quality that is no listed tier.
C33_EstimateByTierRate ==
    Estimated =>
        /\ head.estimated_size = TruncatedBytes(head.duration * kbps(head.quality))
        /\ head.quality \in OfferedTiers =>
              head.estimated_size =
                  TruncatedBytes(head.duration * bitrate_map_171[head.quality])

\* C34: every queue entry whose status is completed or failed carries a
\* processed date, on the normal and on the exception paths of the worker
\* and of the scheduler.
C34_TerminalHasProcessedDate ==
    \A k \in Positions :
        download_queue[k].status \in {"completed", "failed"}
            => download_queue[k].processed_date

\* The step in which the enqueue of thread t is answered after the history
\* lookup has reported the video as downloaded.
AnswersHistoryHit(t) ==
    /\ pc[t] = "add_insert"
    /\ pc'[t] = "idle"
    /\ get_video_id(loc[t].url) # None
    /\ get_video_id(loc[t].url) \in history

\* C35: when the history reports a video as already downloaded, an enqueue
\* of it is answered with a warning and leaves the queue unchanged; the
\* caller can then decide to have the entry enqueued anyway: the enqueue he
\* confirms adds the entry as a pending one.
C35_WarnedThenAllowed ==
    [][\A t \in Threads : AnswersHistoryHit(t) =>
          IF loc[t].confirmed
          THEN /\ Len(download_queue') = Len(download_queue) + 1
               /\ \E k \in 1..Len(download_queue') :
                     download_queue'[k] = NewPending(loc[t].url)
          ELSE /\ download_queue' = download_queue
               /\ queue_file' = queue_file]_vars

\* Only single-download tasks have been started.
OnlyDownloadTasks == \A u \in Tasks : task[u].kind = "download"

\* The step in which the fetch of task t reports a finished file to the
\* hook it holds (line 219).
EmitsFinished(t) ==
    /\ task[t].pc = "fetch"
    /\ task'[t].pc = "h220"

\* C36: with two single-download tasks running concurrently on the shared
\* downloader, a progress event of the fetch of one task changes the status
\* dict of that task and no other, and once every task has ended the hook
\* list of the downloader is empty again, as it was at the start.
C36_HooksStayWithTheirTask ==
    /\ [][OnlyDownloadTasks =>
             \A t \in Tasks : EmitsFinished(t) =>
                 \A k \in DOMAIN download_status \ {t} :
                     download_status'[k] = download_status[k]]_status_vars
    /\ []((OnlyDownloadTasks /\ \A t \in Tasks : task[t].pc = "done")
             => progress_hooks = NoHook)

\* The task has not reached a terminal phase: its thread has still to run
\* or is running.
NotYetTerminal(t) == finished_at[t] \in {Started, StillRunning}

\* C37: once a download request has been answered with a task id, a status
\* lookup for that id is never answered with the not-found body before the
\* task has reached a terminal phase.
C37_IssuedIdIsKnown ==
    [][(response' # response
          /\ response'.task_id \in issued
          /\ NotYetTerminal(response'.task_id))
        => response'.body # NotFound]_<<download_status, sweep_vars>>

\* C38: after a job for a video has ended completed, the history lookup
\* used for the dedup, by the id derived from the job's URL, returns the path
\* of the file that job has produced; also when a history record of that
\* video was there before whose file is missing.
C38_LookupFindsCompletedJob ==
    [][last_job' # last_job =>
          (is_already_downloaded(last_job.video_id) = last_job.file_path)'
      ]_<<table_vars, hist_vars>>

\* C39: an enqueue that was answered with success is not lost by a clear
\* of completed or failed entries running at the same time: as long as the
\* entry is pending it is in the queue in memory and in the saved queue.
StillPending(url) ==
    \E r \in 1..Len(heap) : \E k \in 1..Len(heap[r]) :
        heap[r][k].url = url /\ heap[r][k].status = "pending"
C39_AcceptedEntryKept ==
    \A url \in accepted :
        StillPending(url) => HasUrl(heap[queue_ref], url) /\ HasUrl(saved, url)

\* C40: with queue-processing requests repeated, every entry that is
\* pending or processing is eventually completed or failed, an entry saved
\* as processing when the server stopped and loaded again at the restart
\* included: from some point on no entry of the queue is pending or
\* processing.
C40_ActiveEntriesGetProcessed ==
    <>[](\A k \in Positions : ~Active(k))

====
